---- MODULE Spec2Model ----
(***************************************************************************)
(* A model of the CityGML extraction pipeline: concept extraction from     *)
(* schema documents, city-object and attribute classification,             *)
(* relationship inference and the relevance-scored context builder.        *)
(*                                                                         *)
(* Strings are sequences of one-character strings, so that toLowerCase,    *)
(* includes, split and the id templates are computed character by          *)
(* character, as the source computes them.                                 *)
(***************************************************************************)
EXTENDS Integers, Sequences, FiniteSets, TLC

VARIABLES
    str1, str2, relevance, prevRelevance, relPc,  \* calls of calculateRelevance
    files,                  \* the schema files on disk, in import order
    conceptModel,           \* ConceptExtractor.conceptModel.modules
    conceptRuns,            \* completed calls of extractAllModules
    conceptResults,         \* what each call returned, as it was on return
    objModel,               \* ObjectExtractor.conceptualModel
    cityObjects,            \* the Map extractAllCityObjects returned
    objPc,                  \* "idle", or how extractAllCityObjects ended:
                            \* "returned" or "threw"
    objectsByModule,        \* what classifyObjectsByModule returned
    classifyPc,             \* "idle", "returned" or "threw"
    geometryRepresentations, \* what extractGeometryRepresentations returned
    geometryPc,             \* "idle", "returned" or "threw"
    attrModel,              \* AttributeExtractor.conceptualModel
    allAttributes,          \* the Map extractAllAttributes returned
    attrPc,                 \* "idle", "returned" or "threw"
    cardinalitySummary,     \* what analyzeCardinality returned
    cardPc,                 \* "idle", "returned" or "threw"
    allCodelists,           \* what extractAllCodelists returned
    codelistPc,             \* "idle", "returned" or "threw"
    extractorsSet,          \* RelationshipExtractor has both of its extractors
    moduleXsdDocs,          \* RelationshipExtractor.moduleXsdDocs
    relationships,          \* RelationshipExtractor.relationships
    debugLog,               \* the relationships logger.debug reported, in order
    relationPc,             \* "idle", "returned" or "threw"
    rxModel,                \* RelationshipExtractor.conceptualModel
    moduleRelationships,    \* what extractModuleRelationships returned
    modulePc,               \* "idle" or "returned"
    multiplicitySummary,    \* what analyzeRelationshipMultiplicity returned
    multiplicityPc,         \* "idle" or "returned"
    builderModel,           \* ContextBuilder.conceptModel
    context,                \* ContextBuilder.context
    analyses,               \* the number of analyzeQuery calls so far
    lastAnalysis,           \* the query and the threshold of the last
                            \* analyzeQuery call, and whether it had a model
    encodingDoc,            \* ContextBuilder.encodingDoc
    schemaRegistry,         \* ContextBuilder.schemaRegistry
    built,                  \* build() has returned the Context
    builtContext            \* what the Context held when build() returned it

relVars == <<str1, str2, relevance, prevRelevance, relPc>>
conceptVars == <<conceptModel, conceptRuns, conceptResults>>
objVars == <<objModel, cityObjects, objPc, objectsByModule, classifyPc,
             geometryRepresentations, geometryPc>>

attrVars == <<attrModel, allAttributes, attrPc, cardinalitySummary, cardPc,
              allCodelists, codelistPc>>

rxVars == <<extractorsSet, moduleXsdDocs, relationships, debugLog, relationPc,
            rxModel, moduleRelationships, modulePc, multiplicitySummary,
            multiplicityPc>>

ctxVars == <<builderModel, context, analyses, lastAnalysis, encodingDoc,
             schemaRegistry, built, builtContext>>

vars == <<relVars, files, conceptVars, objVars, attrVars, rxVars, ctxVars>>

-----------------------------------------------------------------------------
(* String primitives (JavaScript String methods)                           *)

UpperChars == <<"A","B","C","D","E","F","G","H","I","J","K","L","M",
                "N","O","P","Q","R","S","T","U","V","W","X","Y","Z">>
LowerChars == <<"a","b","c","d","e","f","g","h","i","j","k","l","m",
                "n","o","p","q","r","s","t","u","v","w","x","y","z">>
DigitChars == <<"0","1","2","3","4","5","6","7","8","9">>

Range(f) == {f[i] : i \in DOMAIN f}

\* the characters of a string literal
Chars(s) == [i \in 1..Len(s) |-> SubSeq(s, i, i)]

Last(seq) == seq[Len(seq)]

ToLowerChar(c) ==
    IF c \in Range(UpperChars)
    THEN LowerChars[CHOOSE i \in DOMAIN UpperChars : UpperChars[i] = c]
    ELSE c

ToLowerCase(s) == [i \in 1..Len(s) |-> ToLowerChar(s[i])]

\* s.startsWith(sub, i - 1)
MatchesAt(s, sub, i) ==
    /\ i + Len(sub) - 1 <= Len(s)
    /\ \A k \in 1..Len(sub) : s[i + k - 1] = sub[k]

Includes(s, sub) == \E i \in 1..(Len(s) + 1) : MatchesAt(s, sub, i)

StartsWith(s, sub) == MatchesAt(s, sub, 1)

EndsWith(s, sub) ==
    Len(sub) <= Len(s) /\ MatchesAt(s, sub, Len(s) - Len(sub) + 1)

\* the regular-expression class \w
IsWordChar(c) ==
    c \in Range(UpperChars) \cup Range(LowerChars) \cup Range(DigitChars) \cup {"_"}

\* s.split(/\W+/)
RECURSIVE SplitNonWord(_)
SplitNonWord(s) ==
    IF \A i \in 1..Len(s) : IsWordChar(s[i])
    THEN <<s>>
    ELSE LET i == CHOOSE k \in 1..Len(s) :
                    /\ ~IsWordChar(s[k])
                    /\ \A m \in 1..(k - 1) : IsWordChar(s[m])
             j == CHOOSE k \in (i + 1)..(Len(s) + 1) :
                    /\ k = Len(s) + 1 \/ IsWordChar(s[k])
                    /\ \A m \in (i + 1)..(k - 1) : ~IsWordChar(s[m])
         IN  <<SubSeq(s, 1, i - 1)>> \o SplitNonWord(SubSeq(s, j, Len(s)))

\* array.filter(pred), for the two filters of calculateRelevance
RECURSIVE FilterLong(_)
FilterLong(ws) ==
    IF ws = <<>> THEN <<>>
    ELSE IF Len(Head(ws)) > 1 THEN <<Head(ws)>> \o FilterLong(Tail(ws))
         ELSE FilterLong(Tail(ws))

RECURSIVE FilterIncluded(_, _)
FilterIncluded(ws, others) ==
    IF ws = <<>> THEN <<>>
    ELSE IF Head(ws) \in Range(others)
         THEN <<Head(ws)>> \o FilterIncluded(Tail(ws), others)
         ELSE FilterIncluded(Tail(ws), others)

-----------------------------------------------------------------------------
(* Relevance scores are exact fractions num/den with den > 0.              *)

Frac(n, d) == [num |-> n, den |-> d]
FracGeq(a, b) == a.num * b.den >= b.num * a.den
FracMax(a, b) == IF FracGeq(a, b) THEN a ELSE b
FracEq(a, b) == a.num * b.den = b.num * a.den

\* ContextBuilder.calculateRelevance
calculateRelevance(a, b) ==
    LET s1 == ToLowerCase(a)
        s2 == ToLowerCase(b)
        words1 == FilterLong(SplitNonWord(s1))
        words2 == FilterLong(SplitNonWord(s2))
        commonWords == FilterIncluded(words1, words2)
    IN  IF s1 = s2 THEN Frac(1, 1)
        ELSE IF Includes(s1, s2) \/ Includes(s2, s1) THEN Frac(4, 5)
        ELSE IF Len(words1) = 0 \/ Len(words2) = 0 THEN Frac(0, 1)
        ELSE Frac(Len(commonWords),
                  Len(words1) + Len(words2) - Len(commonWords))

-----------------------------------------------------------------------------
(* More String and Array methods                                           *)

\* s.split(sep), sep a non-empty string
RECURSIVE Split(_, _)
Split(s, sep) ==
    IF ~\E k \in 1..Len(s) : MatchesAt(s, sep, k)
    THEN <<s>>
    ELSE LET i == CHOOSE k \in 1..Len(s) :
                    /\ MatchesAt(s, sep, k)
                    /\ \A m \in 1..(k - 1) : ~MatchesAt(s, sep, m)
         IN  <<SubSeq(s, 1, i - 1)>> \o Split(SubSeq(s, i + Len(sep), Len(s)), sep)

\* a template literal `${a}${b}...`
RECURSIVE Concat(_)
Concat(parts) == IF parts = <<>> THEN <<>> ELSE Head(parts) \o Concat(Tail(parts))

\* String(n) for an integer n >= 0
RECURSIVE NatToString(_)
NatToString(n) ==
    IF n < 10 THEN <<DigitChars[n + 1]>>
    ELSE Append(NatToString(n \div 10), DigitChars[(n % 10) + 1])

\* a JavaScript number: NaN, or an integer
NaN == [isNaN |-> TRUE, value |-> 0]
Num(n) == [isNaN |-> FALSE, value |-> n]

DigitValue(c) == (CHOOSE i \in DOMAIN DigitChars : DigitChars[i] = c) - 1

RECURSIVE DigitsValue(_, _)
DigitsValue(s, acc) ==
    IF s = <<>> \/ Head(s) \notin Range(DigitChars) THEN acc
    ELSE DigitsValue(Tail(s), acc * 10 + DigitValue(Head(s)))

\* parseInt(s, 10) for a string without leading white space or sign
ParseInt(s) ==
    IF s = <<>> \/ Head(s) \notin Range(DigitChars) THEN NaN
    ELSE Num(DigitsValue(s, 0))

\* array.map(f) and array.filter(p), as sequence operators
MapSeq(f(_), seq) == [i \in 1..Len(seq) |-> f(seq[i])]

FilterSeq(p(_), seq) == SelectSeq(seq, p)

FlatMap(f(_), seq) == Concat(MapSeq(f, seq))

\* a for-of loop that carries its state from one element to the next
RECURSIVE FoldLeft(_, _, _)
FoldLeft(f(_, _), acc, seq) ==
    IF seq = <<>> THEN acc ELSE FoldLeft(f, f(acc, Head(seq)), Tail(seq))

\* path.basename(p, '.xsd')
Basename(p) ==
    LET base == Last(Split(p, <<"/">>))
        ext == Chars(".xsd")
    IN  IF EndsWith(base, ext) /\ base # ext
        THEN SubSeq(base, 1, Len(base) - Len(ext))
        ELSE base

-----------------------------------------------------------------------------
(* Schema documents.  A file is what the DOM parser and the XPath queries   *)
(* of the extractors see of it: its xs:complexType nodes in document order, *)
(* each with the xs:extension, xs:element and xs:attribute nodes below it.  *)
(* An absent XML attribute is the empty string, as getAttribute returns it. *)

Absent == <<>>

\* <xs:element name= type= ref= minOccurs= maxOccurs=/>; inSequence: its
\* parent node is an xs:sequence
XsElement(name, type, ref, minOccurs, maxOccurs, inSequence) ==
    [name |-> name, type |-> type, ref |-> ref, minOccurs |-> minOccurs,
     maxOccurs |-> maxOccurs, nillable |-> Absent, inSequence |-> inSequence]

\* <xs:attribute name= type= ref= use=/>
XsAttribute(name, type, ref, use) ==
    [name |-> name, type |-> type, ref |-> ref, use |-> use]

\* <xs:complexType name= abstract=> with its descendants; documentation: the
\* text of its xs:annotation/xs:documentation nodes; attributeGroup: the XML
\* attribute of that name on the complexType itself; attributeGroupRefs: the
\* ref of each <xs:attributeGroup ref=/> below it
XsComplexType(name, abstract, bases, elements, attributes, documentation) ==
    [name |-> name, abstract |-> abstract, bases |-> bases,
     elements |-> elements, attributes |-> attributes,
     attributeGroup |-> Absent, attributeGroupRefs |-> <<>>,
     documentation |-> documentation]

\* <xs:simpleType name=> with its xs:enumeration facets
XsSimpleType(name, values) == [name |-> name, values |-> values]

\* status: "ok", "unreadable" (readFile or the parser throws) or "noSchema"
\* (no xs:schema node is found)
XsdFile(path, status, targetNamespace, documentation, imports, types, simpleTypes) ==
    [path |-> path, status |-> status, targetNamespace |-> targetNamespace,
     documentation |-> documentation, imports |-> imports, types |-> types,
     simpleTypes |-> simpleTypes]

-----------------------------------------------------------------------------
(* ConceptExtractor                                                        *)

\* type.split(':').pop() || type
StripNamespace(type) ==
    LET last == Last(Split(type, <<":">>))
    IN  IF last # <<>> THEN last ELSE type

OrDefault(value, default) == IF value # <<>> THEN value ELSE default

\* the cardinality template of extractAttributes and extractAssociations
\* a change such as a bug would make: maxOccurs is copied as it is
ElementCardinality_Unmapped(minOccurs, maxOccurs) ==
    Concat(<<minOccurs, Chars(".."), maxOccurs>>)

ElementCardinality(minOccurs, maxOccurs) ==
    IF maxOccurs = Chars("unbounded")
    THEN Concat(<<minOccurs, Chars(".."), Chars("*")>>)
    ELSE Concat(<<minOccurs, Chars(".."), maxOccurs>>)

ElementToAttribute(e) ==
    [name |-> e.name,
     type |-> StripNamespace(e.type),
     cardinality |-> ElementCardinality(OrDefault(e.minOccurs, Chars("1")),
                                        OrDefault(e.maxOccurs, Chars("1"))),
     isNillable |-> (e.nillable = Chars("true")),
     description |-> <<>>]

XsAttributeToAttribute(a) ==
    [name |-> a.name,
     type |-> StripNamespace(a.type),
     cardinality |-> IF a.use = Chars("required") THEN Chars("1..1") ELSE Chars("0..1"),
     isNillable |-> FALSE,
     description |-> <<>>]

HasNameAndType(n) == n.name # <<>> /\ n.type # <<>>

\* ConceptExtractor.extractAttributes
extractAttributes(complexType) ==
    MapSeq(ElementToAttribute, FilterSeq(HasNameAndType, complexType.elements))
    \o MapSeq(XsAttributeToAttribute, FilterSeq(HasNameAndType, complexType.attributes))

HasRef(n) == n.ref # <<>>

RefToAssociation(e) ==
    LET refName == StripNamespace(e.ref)
    IN  [name |-> refName,
         target |-> refName,
         cardinality |-> ElementCardinality(OrDefault(e.minOccurs, Chars("1")),
                                            OrDefault(e.maxOccurs, Chars("1"))),
         role |-> refName,
         description |-> <<>>]

\* ConceptExtractor.extractAssociations
extractAssociations(complexType) ==
    MapSeq(RefToAssociation, FilterSeq(HasRef, complexType.elements))

IsConstraintText(content) ==
    \/ Includes(content, Chars("constraint"))
    \/ Includes(content, Chars("restriction"))
    \/ Includes(content, Chars("must"))
    \/ Includes(content, Chars("should"))

TextToConstraint(content) ==
    [name |-> Chars("Constraint"), description |-> content, expression |-> <<>>]

\* ConceptExtractor.extractConstraints
extractConstraints(complexType) ==
    MapSeq(TextToConstraint, FilterSeq(IsConstraintText, complexType.documentation))

NonEmpty(s) == s # <<>>

\* ConceptExtractor.extractSuperClasses
extractSuperClasses(complexType) ==
    MapSeq(StripNamespace, FilterSeq(NonEmpty, complexType.bases))

\* ConceptExtractor.extractDocumentation, for a complexType node
extractDocumentation(complexType) ==
    IF complexType.documentation # <<>> THEN Head(complexType.documentation) ELSE <<>>

HasName(n) == n.name # <<>>

\* ConceptExtractor.extractClasses
extractClasses(doc, moduleName) ==
    LET ToClass(complexType) ==
            [name |-> complexType.name,
             description |-> extractDocumentation(complexType),
             module |-> moduleName,
             isAbstract |-> (complexType.abstract = Chars("true")),
             attributes |-> extractAttributes(complexType),
             associations |-> extractAssociations(complexType),
             constraints |-> extractConstraints(complexType),
             superClasses |-> extractSuperClasses(complexType)]
    IN  MapSeq(ToClass, FilterSeq(HasName, doc.types))

HasEnumeration(simpleType) == simpleType.values # <<>>

\* ConceptExtractor.extractCodelists
extractCodelists(doc) ==
    LET IsCodelist(st) ==
            HasEnumeration(st) /\ st.name # <<>> /\ ~EndsWith(st.name, Chars("EnumBase"))
        ToCodelist(st) == [name |-> st.name, description |-> <<>>, values |-> st.values]
    IN  MapSeq(ToCodelist, FilterSeq(IsCodelist, doc.simpleTypes))

\* ConceptExtractor.extractEnumerations
extractEnumerations(doc) ==
    LET IsEnumeration(st) ==
            HasEnumeration(st) /\ Includes(st.name, Chars("EnumBase")) /\ st.name # <<>>
        ToEnumeration(st) == [name |-> st.name, description |-> <<>>, values |-> st.values]
    IN  MapSeq(ToEnumeration, FilterSeq(IsEnumeration, doc.simpleTypes))

\* ConceptExtractor.extractDependencies
extractDependencies(doc) == MapSeq(Basename, FilterSeq(NonEmpty, doc.imports))

TypeDocumentation(complexType) == complexType.documentation

\* ConceptExtractor.extractModuleDescription: the first xs:annotation of the
\* whole document, which is a type's when the schema has none of its own
extractModuleDescription(doc) ==
    LET all == doc.documentation \o FlatMap(TypeDocumentation, doc.types)
    IN  IF all # <<>> THEN Head(all) ELSE <<>>

\* ConceptExtractor.processModuleFile: the modules list after the call
processModuleFile(modules, moduleName, file) ==
    IF file.status # "ok" THEN modules
    ELSE Append(modules,
                [name |-> moduleName,
                 namespace |-> file.targetNamespace,
                 description |-> extractModuleDescription(file),
                 classes |-> extractClasses(file, moduleName),
                 codelists |-> extractCodelists(file),
                 enumerations |-> extractEnumerations(file),
                 dependencies |-> extractDependencies(file)])

\* the loop of ConceptExtractor.extractAllModules over the root's imports
RECURSIVE processImports(_, _)
processImports(modules, imports) ==
    IF imports = <<>> THEN modules
    ELSE processImports(
             IF Head(imports).path # <<>>
             THEN processModuleFile(modules, Basename(Head(imports).path), Head(imports))
             ELSE modules,
             Tail(imports))

-----------------------------------------------------------------------------
(* A JavaScript Map: its entries in insertion order.  map.set on a key     *)
(* that is present replaces the value and keeps the entry's position.      *)

MapHas(map, key) == \E i \in DOMAIN map : map[i].key = key

MapGet(map, key) == map[CHOOSE i \in DOMAIN map : map[i].key = key].value

MapSet(map, key, value) ==
    IF MapHas(map, key)
    THEN LET i == CHOOSE k \in DOMAIN map : map[k].key = key
         IN  SubSeq(map, 1, i - 1) \o <<[key |-> key, value |-> value]>>
                \o SubSeq(map, i + 1, Len(map))
    ELSE Append(map, [key |-> key, value |-> value])

RECURSIVE MapSetAll(_, _)
MapSetAll(map, entries) ==
    IF entries = <<>> THEN map
    ELSE MapSetAll(MapSet(map, Head(entries).key, Head(entries).value), Tail(entries))

-----------------------------------------------------------------------------
(* ObjectExtractor                                                         *)

cityObjectModules ==
    {Chars("building"), Chars("bridge"), Chars("transportation"),
     Chars("vegetation"), Chars("waterBody"), Chars("landUse"),
     Chars("cityFurniture"), Chars("relief"), Chars("tunnel")}

geometryClassPatterns ==
    {Chars("Geometry"), Chars("Solid"), Chars("Surface"), Chars("Curve"),
     Chars("Point"), Chars("MultiSurface"), Chars("CompositeSurface"),
     Chars("MultiCurve"), Chars("CompositeCurve"), Chars("MultiPoint")}

cityObjectMarkers ==
    {Chars("AbstractCityObject"), Chars("AbstractFeature"),
     Chars("AbstractSpace"), Chars("AbstractOccupiedSpace")}

cityObjectNamePatterns ==
    {Chars("Building"), Chars("Bridge"), Chars("Road"), Chars("Railway"),
     Chars("Square"), Chars("Track"), Chars("Plant"),
     Chars("SolitaryVegetationObject"), Chars("PlantCover"),
     Chars("WaterBody"), Chars("WaterSurface"), Chars("LandUse"),
     Chars("CityFurniture"), Chars("ReliefFeature"), Chars("Tunnel")}

IncludesAny(s, patterns) == \E pattern \in patterns : Includes(s, pattern)

\* a change such as a bug would make: the superclasses are not looked at
isCityObjectClass_NameOnly(classInfo) ==
    IncludesAny(classInfo.name, cityObjectNamePatterns)

\* ObjectExtractor.isCityObjectClass
isCityObjectClass(classInfo) ==
    \/ \E i \in DOMAIN classInfo.superClasses :
            IncludesAny(classInfo.superClasses[i], cityObjectMarkers)
    \/ IncludesAny(classInfo.name, cityObjectNamePatterns)

IsGeometryTyped(type) == IncludesAny(type, geometryClassPatterns)

\* name.match(/lod[0-9]/) || name.includes('LOD')
IsLodNamed(name) ==
    \/ \E i \in 1..Len(name) :
            MatchesAt(name, Chars("lod"), i) /\ i + 3 <= Len(name)
            /\ name[i + 3] \in Range(DigitChars)
    \/ Includes(name, Chars("LOD"))

\* ObjectExtractor.extractLodLevel: name.match(/lod([0-9])/i), -1 without a match
extractLodLevel(name) ==
    LET lower == ToLowerCase(name)
        Hit(i) == MatchesAt(lower, Chars("lod"), i) /\ i + 3 <= Len(name)
                  /\ name[i + 3] \in Range(DigitChars)
    IN  IF \E i \in 1..Len(name) : Hit(i)
        THEN LET first == CHOOSE i \in 1..Len(name) :
                            Hit(i) /\ \A k \in 1..(i - 1) : ~Hit(k)
             IN  DigitValue(name[first + 3])
        ELSE -1

\* ObjectExtractor.extractGeometryProperties
extractGeometryProperties(classInfo) ==
    LET AttributeIsGeometry(attribute) == IsGeometryTyped(attribute.type)
        AssociationIsGeometry(association) == IsGeometryTyped(association.target)
        FromAttribute(attribute) ==
            [name |-> attribute.name, type |-> attribute.type,
             cardinality |-> attribute.cardinality, role |-> <<>>]
        FromAssociation(association) ==
            [name |-> association.name, type |-> association.target,
             cardinality |-> association.cardinality, role |-> association.role]
    IN  MapSeq(FromAttribute, FilterSeq(AttributeIsGeometry, classInfo.attributes))
        \o MapSeq(FromAssociation,
                  FilterSeq(AssociationIsGeometry, classInfo.associations))

\* ObjectExtractor.inferGeometryDimension
inferGeometryDimension(geometryType) ==
    IF Includes(geometryType, Chars("Solid")) THEN 3
    ELSE IF Includes(geometryType, Chars("Surface"))
                \/ Includes(geometryType, Chars("Polygon")) THEN 2
    ELSE IF Includes(geometryType, Chars("Curve"))
                \/ Includes(geometryType, Chars("Line")) THEN 1
    ELSE IF Includes(geometryType, Chars("Point")) THEN 0
    ELSE -1

\* an entry of geometryRepresentations
GeometryRepresentation(name, type, cardinality) ==
    [type |-> type,
     lodLevel |-> IF extractLodLevel(name) > -1 THEN extractLodLevel(name) ELSE 0,
     multiplicity |-> cardinality,
     dimension |-> inferGeometryDimension(type)]

\* ObjectExtractor.extractGeometryRepresentations, with the conceptual model
\* set: the first class of that name, [] without one
extractGeometryRepresentations(modules, cityObjectName) ==
    LET ModuleClassList(module) == module.classes
        classes == FlatMap(ModuleClassList, modules)
        IsTarget(classInfo) == classInfo.name = cityObjectName
        found == FilterSeq(IsTarget, classes)
        AttributeIsGeometry(attribute) == IsGeometryTyped(attribute.type)
        AssociationIsGeometry(association) == IsGeometryTyped(association.target)
        FromAttribute(attribute) ==
            GeometryRepresentation(attribute.name, attribute.type, attribute.cardinality)
        FromAssociation(association) ==
            GeometryRepresentation(association.name, association.target,
                                   association.cardinality)
    IN  IF found = <<>> THEN <<>>
        ELSE MapSeq(FromAttribute, FilterSeq(AttributeIsGeometry, found[1].attributes))
             \o MapSeq(FromAssociation,
                       FilterSeq(AssociationIsGeometry, found[1].associations))

\* ObjectExtractor.classifyObjectsByModule, with the conceptual model set
classifyObjectsByModule(modules) ==
    LET IsCityObjectModule(module) == module.name \in cityObjectModules
        ClassName(classInfo) == classInfo.name
        ToEntry(module) ==
            [key |-> module.name,
             value |-> MapSeq(ClassName, FilterSeq(isCityObjectClass, module.classes))]
    IN  MapSetAll(<<>>, MapSeq(ToEntry, FilterSeq(IsCityObjectModule, modules)))

\* one iteration of either loop of extractLodInfo
LodStep(lodInfo, name, type, role) ==
    LET lodLevel == extractLodLevel(name)
    IN  IF IsLodNamed(name) /\ lodLevel > -1
        THEN [maxLod |-> IF lodLevel > lodInfo.maxLod THEN lodLevel ELSE lodInfo.maxLod,
              minLod |-> IF lodInfo.minLod = 0 \/ lodLevel < lodInfo.minLod
                         THEN lodLevel ELSE lodInfo.minLod,
              lodAttributes |-> Append(lodInfo.lodAttributes,
                                       [name |-> name, level |-> lodLevel,
                                        type |-> type, role |-> role])]
        ELSE lodInfo

RECURSIVE LodOverAttributes(_, _)
LodOverAttributes(lodInfo, attributes) ==
    IF attributes = <<>> THEN lodInfo
    ELSE LodOverAttributes(
             LodStep(lodInfo, Head(attributes).name, Head(attributes).type, <<>>),
             Tail(attributes))

RECURSIVE LodOverAssociations(_, _)
LodOverAssociations(lodInfo, associations) ==
    IF associations = <<>> THEN lodInfo
    ELSE LodOverAssociations(
             LodStep(lodInfo, Head(associations).name, Head(associations).target,
                     Head(associations).role),
             Tail(associations))

\* ObjectExtractor.extractLodInfo
extractLodInfo(classInfo) ==
    LodOverAssociations(
        LodOverAttributes([maxLod |-> 0, minLod |-> 0, lodAttributes |-> <<>>],
                          classInfo.attributes),
        classInfo.associations)

\* ObjectExtractor.extractThematicAttributes
extractThematicAttributes(classInfo) ==
    LET IsThematic(attribute) ==
            ~IsGeometryTyped(attribute.type) /\ ~IsLodNamed(attribute.name)
        Project(attribute) ==
            [name |-> attribute.name, type |-> attribute.type,
             cardinality |-> attribute.cardinality]
    IN  MapSeq(Project, FilterSeq(IsThematic, classInfo.attributes))

\* ObjectExtractor.extractCityObjectsFromModule: the entries of its Map.
\* children is the empty sequence while the object has no children property.
extractCityObjectsFromModule(module) ==
    LET ToEntry(classInfo) ==
            [key |-> classInfo.name,
             value |-> [name |-> classInfo.name,
                        module |-> module.name,
                        isAbstract |-> classInfo.isAbstract,
                        superClasses |-> classInfo.superClasses,
                        attributes |-> classInfo.attributes,
                        associations |-> classInfo.associations,
                        geometryProperties |-> extractGeometryProperties(classInfo),
                        lodInfo |-> extractLodInfo(classInfo),
                        thematicAttributes |-> extractThematicAttributes(classInfo),
                        children |-> <<>>]]
    IN  MapSetAll(<<>>, MapSeq(ToEntry, FilterSeq(isCityObjectClass, module.classes)))

EntryKey(entry) == entry.key

\* a change such as a bug would make: the test of buildObjectHierarchy with
\* parent and child exchanged
buildObjectHierarchy_Reversed(objects) ==
    [i \in DOMAIN objects |->
        LET IsParentOf(entry) == entry.key \in Range(objects[i].value.superClasses)
        IN  [objects[i] EXCEPT
                !.value.children = MapSeq(EntryKey, FilterSeq(IsParentOf, objects))]]

\* ObjectExtractor.buildObjectHierarchy
buildObjectHierarchy(objects) ==
    [i \in DOMAIN objects |->
        LET IsChild(entry) == objects[i].key \in Range(entry.value.superClasses)
        IN  [objects[i] EXCEPT
                !.value.children = MapSeq(EntryKey, FilterSeq(IsChild, objects))]]

RECURSIVE CollectCityObjects(_, _)
CollectCityObjects(objects, modules) ==
    IF modules = <<>> THEN objects
    ELSE CollectCityObjects(
             IF Head(modules).name \in cityObjectModules
             THEN MapSetAll(objects, extractCityObjectsFromModule(Head(modules)))
             ELSE objects,
             Tail(modules))

\* ObjectExtractor.extractAllCityObjects, with the conceptual model set
extractAllCityObjects(modules) ==
    buildObjectHierarchy(CollectCityObjects(<<>>, modules))

-----------------------------------------------------------------------------
(* AttributeExtractor (src/src/extractors/attributes.ts)                    *)

metadataAttributePatterns ==
    {Chars("creationDate"), Chars("terminationDate"), Chars("validFrom"),
     Chars("validTo"), Chars("updateDate"), Chars("source"), Chars("creator"),
     Chars("description"), Chars("identifier")}

geometryTypePatterns ==
    {Chars("Geometry"), Chars("Point"), Chars("Curve"), Chars("Surface"),
     Chars("Solid"), Chars("GeometryProperty"), Chars("MultiPoint"),
     Chars("MultiCurve"), Chars("MultiSurface"), Chars("MultiSolid"),
     Chars("CompositeCurve"), Chars("CompositeSurface"), Chars("CompositeSolid")}

\* AttributeExtractor.isGeometryAttribute
isGeometryAttribute(type) == IncludesAny(type, geometryTypePatterns)

\* AttributeExtractor.isMetadataAttribute
isMetadataAttribute(name) == IncludesAny(name, metadataAttributePatterns)

ModuleCodelists(module) == module.codelists
ModuleEnumerations(module) == module.enumerations

\* the codelists, and the enumerations, of all modules in the order the
\* loops of the extractor visit them
AllCodelists(modules) == FlatMap(ModuleCodelists, modules)
AllEnumerations(modules) == FlatMap(ModuleEnumerations, modules)

\* AttributeExtractor.extractAllCodelists, with the conceptual model set
extractAllCodelists(modules) == AllCodelists(modules)

\* AttributeExtractor.isCodelistAttribute
isCodelistAttribute(modules, type) ==
    \E i \in DOMAIN AllCodelists(modules) : Includes(type, AllCodelists(modules)[i].name)

\* AttributeExtractor.isEnumerationAttribute
isEnumerationAttribute(modules, type) ==
    \E i \in DOMAIN AllEnumerations(modules) :
        Includes(type, AllEnumerations(modules)[i].name)

\* the first element of list whose name type includes, null without one
FirstIncluded(list, type) ==
    LET Named(x) == Includes(type, x.name)
        hits == FilterSeq(Named, list)
    IN  IF hits = <<>> THEN "null" ELSE Head(hits)

\* AttributeExtractor.getCodelistInfo
getCodelistInfo(modules, type) == FirstIncluded(AllCodelists(modules), type)

\* AttributeExtractor.getEnumerationInfo
getEnumerationInfo(modules, type) == FirstIncluded(AllEnumerations(modules), type)

\* AttributeExtractor.hasConstraints
hasConstraints(classInfo, attributeName) ==
    \E i \in DOMAIN classInfo.constraints :
        Includes(classInfo.constraints[i].description, attributeName)

\* a change such as a bug would make: the metadata test before the geometry
\* test
AttributeBucket_MetadataFirst(modules, attribute) ==
    IF isMetadataAttribute(attribute.name) THEN "metadataAttributes"
    ELSE IF isGeometryAttribute(attribute.type) THEN "geometryAttributes"
    ELSE IF isCodelistAttribute(modules, attribute.type) THEN "codelistAttributes"
    ELSE IF isEnumerationAttribute(modules, attribute.type) THEN "enumerationAttributes"
    ELSE "basicAttributes"

\* the bucket the if / else-if chain of extractClassAttributes pushes to
AttributeBucket(modules, attribute) ==
    IF isGeometryAttribute(attribute.type) THEN "geometryAttributes"
    ELSE IF isMetadataAttribute(attribute.name) THEN "metadataAttributes"
    ELSE IF isCodelistAttribute(modules, attribute.type) THEN "codelistAttributes"
    ELSE IF isEnumerationAttribute(modules, attribute.type) THEN "enumerationAttributes"
    ELSE "basicAttributes"

\* AttributeExtractor.extractClassAttributes
extractClassAttributes(modules, classInfo) ==
    LET AttributeInfo(attribute) ==
            [name |-> attribute.name, type |-> attribute.type,
             cardinality |-> attribute.cardinality,
             description |-> attribute.description,
             isNillable |-> attribute.isNillable]
        Pushed(bucket) ==
            LET InBucket(attribute) == AttributeBucket(modules, attribute) = bucket
            IN  MapSeq(AttributeInfo, FilterSeq(InBucket, classInfo.attributes))
        WithCodelist(attribute) ==
            [name |-> attribute.name, type |-> attribute.type,
             cardinality |-> attribute.cardinality,
             description |-> attribute.description,
             isNillable |-> attribute.isNillable,
             codelist |-> getCodelistInfo(modules, attribute.type)]
        WithEnumeration(attribute) ==
            [name |-> attribute.name, type |-> attribute.type,
             cardinality |-> attribute.cardinality,
             description |-> attribute.description,
             isNillable |-> attribute.isNillable,
             enumeration |-> getEnumerationInfo(modules, attribute.type)]
        IsCodelistBucket(attribute) ==
            AttributeBucket(modules, attribute) = "codelistAttributes"
        IsEnumerationBucket(attribute) ==
            AttributeBucket(modules, attribute) = "enumerationAttributes"
        IsConstrained(attribute) == hasConstraints(classInfo, attribute.name)
    IN  [className |-> classInfo.name,
         basicAttributes |-> Pushed("basicAttributes"),
         geometryAttributes |-> Pushed("geometryAttributes"),
         metadataAttributes |-> Pushed("metadataAttributes"),
         codelistAttributes |->
            MapSeq(WithCodelist, FilterSeq(IsCodelistBucket, classInfo.attributes)),
         enumerationAttributes |->
            MapSeq(WithEnumeration,
                   FilterSeq(IsEnumerationBucket, classInfo.attributes)),
         constrainedAttributes |->
            MapSeq(AttributeInfo, FilterSeq(IsConstrained, classInfo.attributes))]

\* AttributeExtractor.extractAllAttributes, with the conceptual model set
extractAllAttributes(modules) ==
    LET ModuleEntries(module) ==
            LET ToEntry(classInfo) ==
                    [key |-> classInfo.name,
                     value |-> extractClassAttributes(modules, classInfo)]
            IN  MapSeq(ToEntry, module.classes)
    IN  MapSetAll(<<>>, FlatMap(ModuleEntries, modules))

\* analyzeCardinality: the entries one attribute adds to the three lists
CardinalityEntries(classInfo, attribute) ==
    LET cardinality == attribute.cardinality
        parts == Split(cardinality, Chars(".."))
        maxOccurs == IF Len(parts) >= 2 THEN parts[2] ELSE Absent
        entry == [className |-> classInfo.name, attributeName |-> attribute.name]
        required == \/ StartsWith(cardinality, Chars("1"))
                    \/ StartsWith(cardinality, Chars("2"))
                    \/ StartsWith(cardinality, Chars("3"))
        optional == ~required /\ StartsWith(cardinality, Chars("0"))
        multiValued ==
            \/ maxOccurs = Chars("*")
            \/ /\ maxOccurs # <<>>
               /\ ~ParseInt(maxOccurs).isNaN
               /\ ParseInt(maxOccurs).value > 1
    IN  [requiredAttributes |-> IF required THEN <<entry>> ELSE <<>>,
         optionalAttributes |-> IF optional THEN <<entry>> ELSE <<>>,
         multiValuedAttributes |->
            IF multiValued
            THEN <<[className |-> classInfo.name, attributeName |-> attribute.name,
                    maxOccurs |-> maxOccurs]>>
            ELSE <<>>]

\* AttributeExtractor.analyzeCardinality, with the conceptual model set
analyzeCardinality(modules) ==
    LET OfClass(classInfo) ==
            LET OfAttribute(attribute) == <<CardinalityEntries(classInfo, attribute)>>
            IN  FlatMap(OfAttribute, classInfo.attributes)
        OfModule(module) == FlatMap(OfClass, module.classes)
        entries == FlatMap(OfModule, modules)
        Required(e) == e.requiredAttributes
        Optional(e) == e.optionalAttributes
        MultiValued(e) == e.multiValuedAttributes
    IN  [requiredAttributes |-> FlatMap(Required, entries),
         optionalAttributes |-> FlatMap(Optional, entries),
         multiValuedAttributes |-> FlatMap(MultiValued, entries)]

-----------------------------------------------------------------------------
(* RelationshipExtractor (src/unnamed/part_004)                             *)

\* parts = qname.split(':'); parts.length > 1 ? parts[1] : parts[0]
WithoutPrefix(qname) ==
    LET parts == Split(qname, <<":">>)
    IN  IF Len(parts) > 1 THEN parts[2] ELSE parts[1]

\* qname.split(':')[0] of a name with a prefix, nothing without one
PrefixOf(qname) ==
    LET parts == Split(qname, <<":">>)
    IN  IF Len(parts) > 1 THEN parts[1] ELSE Absent

\* Multiplicity.max: '*' or a number
Star == [star |-> TRUE, number |-> NaN]
Finite(number) == [star |-> FALSE, number |-> number]

Multiplicity(min, max) == [min |-> min, max |-> max]

\* maxOccurs === 'unbounded' ? '*' : parseInt(maxOccurs, 10)
MaxMultiplicity(maxOccurs) ==
    IF maxOccurs = Chars("unbounded") THEN Star ELSE Finite(ParseInt(maxOccurs))

\* { min: parseInt(minOccurs, 10), max: ... } of an element, with the
\* defaults '1' of absent attributes
ElementMultiplicity(element) ==
    Multiplicity(ParseInt(OrDefault(element.minOccurs, Chars("1"))),
                 MaxMultiplicity(OrDefault(element.maxOccurs, Chars("1"))))

\* path.join(this.xsdBasePath, `${moduleName}.xsd`), the base path being ''
XsdPath(moduleName) == moduleName \o Chars(".xsd")

\* a RelationshipInfo; the optional properties a pattern leaves out are Absent
RelationshipInfo(id, name, type, source, target, sourceRole, targetRole,
                 sourceMultiplicity, targetMultiplicity, spatialType, moduleName) ==
    [id |-> id, name |-> name, type |-> type, source |-> source, target |-> target,
     sourceRole |-> sourceRole, targetRole |-> targetRole,
     sourceMultiplicity |-> sourceMultiplicity,
     targetMultiplicity |-> targetMultiplicity,
     direction |-> "unidirectional", spatialType |-> spatialType,
     xsdPath |-> XsdPath(moduleName)]

\* the Map after this.relationships.set(r.id, r) for each r of sets in turn:
\* the ids in the order of their first set, each with the value of its last
SetRelationships(sets) ==
    LET Index(i) == i
        IsFirstSet(i) == \A k \in 1..(i - 1) : sets[k].id # sets[i].id
        firsts == FilterSeq(IsFirstSet, MapSeq(Index, [i \in DOMAIN sets |-> i]))
        LastSet(id) ==
            sets[CHOOSE i \in DOMAIN sets :
                    /\ sets[i].id = id
                    /\ \A k \in (i + 1)..Len(sets) : sets[k].id # id]
        ToEntry(i) == [key |-> sets[i].id, value |-> LastSet(sets[i].id)]
    IN  MapSeq(ToEntry, firsts)

\* a change such as a bug would make: a file that fails ends the loading,
\* and what was loaded before it is lost
processRelationshipModuleFile_Abort(docs, file) ==
    IF file.status = "ok" /\ file.targetNamespace # Absent
    THEN MapSet(docs, Basename(file.path), file)
    ELSE <<>>

\* RelationshipExtractor.processModuleFile, as extractRelationships calls it:
\* a file that cannot be read or parsed throws and is logged, one without
\* xs:schema or without targetNamespace is left out
processRelationshipModuleFile(docs, file) ==
    IF file.status = "ok" /\ file.targetNamespace # Absent
    THEN MapSet(docs, Basename(file.path), file)
    ELSE docs

loadModuleXsdDocs(xsdFiles) == FoldLeft(processRelationshipModuleFile, <<>>, xsdFiles)

\* the relationship extractGeneralizationRelationships sets for one extension
GeneralizationRelationship(moduleName, typeName, baseTypeName) ==
    LET baseTypeNameWithoutPrefix == WithoutPrefix(baseTypeName)
    IN  RelationshipInfo(
            Concat(<<Chars("generalization_"), typeName, Chars("_"),
                     baseTypeNameWithoutPrefix>>),
            Concat(<<typeName, Chars("_extends_"), baseTypeNameWithoutPrefix>>),
            "generalization", typeName, baseTypeNameWithoutPrefix, Absent, Absent,
            Multiplicity(Num(0), Star), Multiplicity(Num(1), Finite(Num(1))),
            Absent, moduleName)

\* the loops of a pass over all modules: each named complexType of each
\* document, in document order
NamedTypes(doc) == FilterSeq(HasName, doc.types)

\* RelationshipExtractor.extractGeneralizationRelationships: the
\* relationships it sets, in order
extractGeneralizationRelationships(docs) ==
    LET OfModule(entry) ==
            LET OfType(complexType) ==
                    LET OfExtension(baseTypeName) ==
                            GeneralizationRelationship(entry.key, complexType.name,
                                                       baseTypeName)
                    IN  MapSeq(OfExtension, FilterSeq(NonEmpty, complexType.bases))
            IN  FlatMap(OfType, NamedTypes(entry.value))
    IN  FlatMap(OfModule, docs)

\* the relationship processElementReference sets
ElementReferenceRelationship(moduleName, sourceTypeName, element) ==
    LET refWithoutPrefix == WithoutPrefix(element.ref)
        relationType == IF element.inSequence THEN "composition" ELSE "association"
    IN  RelationshipInfo(
            Concat(<<Chars(relationType), Chars("_"), sourceTypeName, Chars("_"),
                     refWithoutPrefix>>),
            Concat(<<sourceTypeName, Chars("_has_"), refWithoutPrefix>>),
            relationType, sourceTypeName, refWithoutPrefix, Absent, Absent,
            Multiplicity(Num(1), Finite(Num(1))), ElementMultiplicity(element),
            Absent, moduleName)

\* a change such as a bug would make: the test for a part comes first
ElementRelationType_PartFirst(elementName) ==
    IF EndsWith(elementName, Chars("Part")) \/ Includes(elementName, Chars("parts"))
    THEN "composition"
    ELSE IF EndsWith(elementName, Chars("Member")) \/ Includes(elementName, Chars("members"))
    THEN "aggregation"
    ELSE "association"

\* the relation type processElementWithType reads from the element name
ElementRelationType(elementName) ==
    IF EndsWith(elementName, Chars("Member")) \/ Includes(elementName, Chars("members"))
    THEN "aggregation"
    ELSE IF EndsWith(elementName, Chars("Part")) \/ Includes(elementName, Chars("parts"))
    THEN "composition"
    ELSE "association"

\* the relationship processElementWithType sets
ElementWithTypeRelationship(moduleName, sourceTypeName, element) ==
    LET typeWithoutPrefix == WithoutPrefix(element.type)
        relationType == ElementRelationType(element.name)
    IN  RelationshipInfo(
            Concat(<<Chars(relationType), Chars("_"), sourceTypeName, Chars("_"),
                     element.name, Chars("_"), typeWithoutPrefix>>),
            Concat(<<sourceTypeName, Chars("_"), element.name, Chars("_"),
                     typeWithoutPrefix>>),
            relationType, sourceTypeName, typeWithoutPrefix,
            ToLowerCase(sourceTypeName), element.name,
            Multiplicity(Num(1), Finite(Num(1))), ElementMultiplicity(element),
            Absent, moduleName)

\* typeParts.length > 1 && typeParts[0] === 'xs'
IsXsType(type) == PrefixOf(type) = Chars("xs")

\* RelationshipExtractor.extractRelationshipsFromElements, for the elements
\* below a named complexType; an element without one is skipped by
\* processElementReference and processElementWithType
extractRelationshipsFromElements(doc, moduleName) ==
    LET OfType(complexType) ==
            LET OfElement(element) ==
                    IF element.ref # Absent
                    THEN <<ElementReferenceRelationship(moduleName,
                                complexType.name, element)>>
                    ELSE IF element.name # Absent /\ element.type # Absent
                                /\ ~IsXsType(element.type)
                    THEN <<ElementWithTypeRelationship(moduleName,
                                complexType.name, element)>>
                    ELSE <<>>
            IN  FlatMap(OfElement, complexType.elements)
    IN  FlatMap(OfType, NamedTypes(doc))

\* the relationship processAttributeReference sets for a reference other
\* than xlink:href
AttributeReferenceRelationship(moduleName, sourceTypeName, attribute) ==
    LET refWithoutPrefix == WithoutPrefix(attribute.ref)
    IN  RelationshipInfo(
            Concat(<<Chars("association_"), sourceTypeName, Chars("_"),
                     refWithoutPrefix>>),
            Concat(<<sourceTypeName, Chars("_refers_to_"), refWithoutPrefix>>),
            "association", sourceTypeName, refWithoutPrefix, Absent, Absent,
            Multiplicity(Num(1), Finite(Num(1))), Multiplicity(Num(0), Finite(Num(1))),
            Absent, moduleName)

\* a change such as a bug would make: the id of processAttributeWithType
\* with a prefix of its own
AttributeWithTypeRelationship_OwnPrefix(moduleName, sourceTypeName, attribute) ==
    LET typeWithoutPrefix == WithoutPrefix(attribute.type)
    IN  RelationshipInfo(
            Concat(<<Chars("attribute_"), sourceTypeName, Chars("_"),
                     attribute.name, Chars("_"), typeWithoutPrefix>>),
            Concat(<<sourceTypeName, Chars("_"), attribute.name, Chars("_"),
                     typeWithoutPrefix>>),
            "association", sourceTypeName, typeWithoutPrefix,
            ToLowerCase(sourceTypeName), attribute.name,
            Multiplicity(Num(1), Finite(Num(1))), Multiplicity(Num(0), Finite(Num(1))),
            Absent, moduleName)

\* the relationship processAttributeWithType sets
AttributeWithTypeRelationship(moduleName, sourceTypeName, attribute) ==
    LET typeWithoutPrefix == WithoutPrefix(attribute.type)
    IN  RelationshipInfo(
            Concat(<<Chars("association_"), sourceTypeName, Chars("_"),
                     attribute.name, Chars("_"), typeWithoutPrefix>>),
            Concat(<<sourceTypeName, Chars("_"), attribute.name, Chars("_"),
                     typeWithoutPrefix>>),
            "association", sourceTypeName, typeWithoutPrefix,
            ToLowerCase(sourceTypeName), attribute.name,
            Multiplicity(Num(1), Finite(Num(1))), Multiplicity(Num(0), Finite(Num(1))),
            Absent, moduleName)

\* String.prototype.replace(pattern, replacement) with a string pattern: the
\* first occurrence is replaced
ReplaceFirst(s, pattern, replacement) ==
    IF Includes(s, pattern)
    THEN LET first == CHOOSE i \in 1..(Len(s) + 1) :
                        MatchesAt(s, pattern, i)
                        /\ \A k \in 1..(i - 1) : ~MatchesAt(s, pattern, k)
         IN  SubSeq(s, 1, first - 1) \o replacement
             \o SubSeq(s, first + Len(pattern), Len(s))
    ELSE s

\* the target processXlinkReference reads from the attribute named
\* attributeGroup of the complexType
XlinkTargetTypeName(complexType) ==
    IF complexType.attributeGroup # Absent
            /\ EndsWith(WithoutPrefix(complexType.attributeGroup), Chars("PropertyType"))
    THEN ReplaceFirst(WithoutPrefix(complexType.attributeGroup),
                      Chars("PropertyType"), <<>>)
    ELSE Chars("Unknown")

\* the relationship processXlinkReference sets
XlinkRelationship(moduleName, complexType) ==
    LET targetTypeName == XlinkTargetTypeName(complexType)
    IN  RelationshipInfo(
            Concat(<<Chars("spatial_"), complexType.name, Chars("_"), targetTypeName>>),
            Concat(<<complexType.name, Chars("_spatially_related_to_"),
                     targetTypeName>>),
            "spatial", complexType.name, targetTypeName, Absent, Absent,
            Multiplicity(Num(1), Finite(Num(1))), Multiplicity(Num(0), Star),
            "references", moduleName)

\* refParts.length > 1 && refParts[0] === 'xlink' && refWithoutPrefix === 'href'
IsXlinkHref(ref) == PrefixOf(ref) = Chars("xlink") /\ WithoutPrefix(ref) = Chars("href")

\* RelationshipExtractor.extractRelationshipsFromAttributes, for the
\* attributes below a named complexType
extractRelationshipsFromAttributes(doc, moduleName) ==
    LET OfType(complexType) ==
            LET OfAttribute(attribute) ==
                    IF attribute.ref # Absent
                    THEN IF IsXlinkHref(attribute.ref)
                         THEN <<XlinkRelationship(moduleName, complexType)>>
                         ELSE <<AttributeReferenceRelationship(moduleName,
                                    complexType.name, attribute)>>
                    ELSE IF attribute.name # Absent /\ attribute.type # Absent
                                /\ ~IsXsType(attribute.type)
                    THEN <<AttributeWithTypeRelationship(moduleName,
                                complexType.name, attribute)>>
                    ELSE <<>>
            IN  FlatMap(OfAttribute, complexType.attributes)
    IN  FlatMap(OfType, NamedTypes(doc))

\* RelationshipExtractor.extractAssociationRelationships
extractAssociationRelationships(docs) ==
    LET OfModule(entry) ==
            extractRelationshipsFromElements(entry.value, entry.key)
            \o extractRelationshipsFromAttributes(entry.value, entry.key)
    IN  FlatMap(OfModule, docs)

\* the spatial type extractGeometryRelationships reads from the element name
GeometrySpatialType(geometryName) ==
    IF Includes(geometryName, Chars("boundedBy")) THEN "within"
    ELSE IF Includes(geometryName, Chars("touches")) THEN "touches"
    ELSE IF Includes(geometryName, Chars("overlaps")) THEN "overlaps"
    ELSE "contains"

\* a change such as a bug would make: the id is built from the source role,
\* the lowercased name of the type
GeometryRelationship_RoleInId(moduleName, sourceTypeName, element) ==
    LET typeWithoutPrefix == WithoutPrefix(element.type)
    IN  RelationshipInfo(
            Concat(<<Chars("spatial_"), ToLowerCase(sourceTypeName), Chars("_"),
                     element.name, Chars("_"), typeWithoutPrefix>>),
            Concat(<<sourceTypeName, Chars("_has_geometry_"), typeWithoutPrefix>>),
            "spatial", sourceTypeName, typeWithoutPrefix,
            ToLowerCase(sourceTypeName), element.name,
            Multiplicity(Num(1), Finite(Num(1))), Multiplicity(Num(0), Finite(Num(1))),
            GeometrySpatialType(element.name), moduleName)

\* the relationship extractGeometryRelationships sets
GeometryRelationship(moduleName, sourceTypeName, element) ==
    LET typeWithoutPrefix == WithoutPrefix(element.type)
    IN  RelationshipInfo(
            Concat(<<Chars("spatial_"), sourceTypeName, Chars("_"), element.name,
                     Chars("_"), typeWithoutPrefix>>),
            Concat(<<sourceTypeName, Chars("_has_geometry_"), typeWithoutPrefix>>),
            "spatial", sourceTypeName, typeWithoutPrefix,
            ToLowerCase(sourceTypeName), element.name,
            Multiplicity(Num(1), Finite(Num(1))), Multiplicity(Num(0), Finite(Num(1))),
            GeometrySpatialType(element.name), moduleName)

\* xs:element[contains(@name, "geometry") or contains(@name, "Geometry")]
IsGeometryNamed(element) ==
    Includes(element.name, Chars("geometry")) \/ Includes(element.name, Chars("Geometry"))

\* RelationshipExtractor.extractGeometryRelationships
extractGeometryRelationships(docs) ==
    LET OfModule(entry) ==
            LET OfType(complexType) ==
                    LET OfElement(element) ==
                            GeometryRelationship(entry.key, complexType.name, element)
                    IN  MapSeq(OfElement,
                               FilterSeq(HasNameAndType,
                                         FilterSeq(IsGeometryNamed,
                                                   complexType.elements)))
            IN  FlatMap(OfType, NamedTypes(entry.value))
    IN  FlatMap(OfModule, docs)

\* RelationshipExtractor.extractRelationships, with both extractors set: the
\* maps are cleared, the files loaded, and the passes run in their order.
\* extractReferentialIntegrityRules only logs the xs:key and xs:keyref rules.
extractRelationships(xsdFiles) ==
    LET docs == loadModuleXsdDocs(xsdFiles)
        sets == extractGeneralizationRelationships(docs)
                \o extractAssociationRelationships(docs)
                \o extractGeometryRelationships(docs)
    IN  [moduleXsdDocs |-> docs, relationships |-> SetRelationships(sets),
         log |-> sets]

\* RelationshipExtractor.getRelationshipsArray
getRelationshipsArray(map) == [i \in DOMAIN map |-> map[i].value]

\* RelationshipExtractor.findModuleForClass: the name of the first module
\* with a class of that name, null (Absent) without one or without a model
findModuleForClass(model, className) ==
    LET HasClass(m) ==
            \E c \in DOMAIN model.modules[m].classes :
                model.modules[m].classes[c].name = className
    IN  IF model.isNull \/ ~\E m \in DOMAIN model.modules : HasClass(m)
        THEN Absent
        ELSE model.modules[CHOOSE m \in DOMAIN model.modules :
                                HasClass(m) /\ \A k \in 1..(m - 1) : ~HasClass(k)].name

\* RelationshipExtractor.extractModuleRelationships
extractModuleRelationships(model, map) ==
    LET all == getRelationshipsArray(map)
        SourceModule(r) == findModuleForClass(model, r.source)
        TargetModule(r) == findModuleForClass(model, r.target)
        IsCrossModule(r) ==
            /\ SourceModule(r) # <<>>
            /\ TargetModule(r) # <<>>
            /\ SourceModule(r) # TargetModule(r)
        cross == FilterSeq(IsCrossModule, all)
        IsAssociation(r) == r.type = "association"
        ToAssociation(r) ==
            [source |-> SourceModule(r), target |-> TargetModule(r),
             relationship |-> r.name]
        ToDependency(r) == [source |-> SourceModule(r), target |-> TargetModule(r)]
        pairs == MapSeq(ToDependency, cross)
        Index(i) == i
        IsFirst(i) == \A k \in 1..(i - 1) : pairs[k] # pairs[i]
        PairAt(i) == pairs[i]
    IN  [dependencies |->
            MapSeq(PairAt, FilterSeq(IsFirst, [i \in DOMAIN pairs |-> i])),
         crossModuleAssociations |-> MapSeq(ToAssociation, FilterSeq(IsAssociation, cross)),
         crossModuleGeneralizations |-> <<>>]

\* max === 1
MaxIsOne(max) == ~max.star /\ ~max.number.isNaN /\ max.number.value = 1

\* max === '*' || Number(max) > 1
MaxIsMany(max) == max.star \/ (~max.number.isNaN /\ max.number.value > 1)

\* the list analyzeRelationshipMultiplicity pushes the relationship to
MultiplicityBucket(r) ==
    IF MaxIsOne(r.sourceMultiplicity.max) /\ MaxIsOne(r.targetMultiplicity.max)
    THEN "oneToOne"
    ELSE IF MaxIsOne(r.sourceMultiplicity.max) /\ MaxIsMany(r.targetMultiplicity.max)
    THEN "oneToMany"
    ELSE IF MaxIsMany(r.sourceMultiplicity.max) /\ MaxIsOne(r.targetMultiplicity.max)
    THEN "manyToOne"
    ELSE "manyToMany"

\* RelationshipExtractor.analyzeRelationshipMultiplicity
analyzeRelationshipMultiplicity(map) ==
    LET all == getRelationshipsArray(map)
        IsOneToOne(r) == MultiplicityBucket(r) = "oneToOne"
        IsOneToMany(r) == MultiplicityBucket(r) = "oneToMany"
        IsManyToOne(r) == MultiplicityBucket(r) = "manyToOne"
        IsManyToMany(r) == MultiplicityBucket(r) = "manyToMany"
    IN  [oneToOne |-> FilterSeq(IsOneToOne, all),
         oneToMany |-> FilterSeq(IsOneToMany, all),
         manyToOne |-> FilterSeq(IsManyToOne, all),
         manyToMany |-> FilterSeq(IsManyToMany, all)]

-----------------------------------------------------------------------------
(* ContextBuilder (src/src/context/templates.ts)                            *)

FracAdd(a, b) == Frac(a.num * b.den + b.num * a.den, a.den * b.den)

\* the context the constructor makes; query is Absent while it is not set
NewContext ==
    [query |-> Absent, items |-> <<>>,
     metadata |-> [totalItems |-> 0, sources |-> <<>>]]

\* a ContextItem without its content and description
ContextItem(type, id, name, importance, itemRelevance, relatedItems) ==
    [type |-> type, id |-> id, name |-> name, importance |-> importance,
     relevance |-> itemRelevance, relatedItems |-> relatedItems]

ModuleId(module) == Chars("module_") \o ToLowerCase(module.name)
ClassId(className) == Chars("class_") \o ToLowerCase(className)

\* a change such as a bug would make: the second text is not scored
RelevanceOf_NameOnly(first, second, query) == calculateRelevance(first, query)

\* Math.max of the two relevances, the second being 0 for an empty text
RelevanceOf(first, second, query) ==
    FracMax(calculateRelevance(first, query),
            IF second # <<>> THEN calculateRelevance(second, query) ELSE Frac(0, 1))

\* the item addModuleToContext pushes; parent: the item the push is also
\* noted on as a related item, none for a module
ModuleCandidate(module, itemRelevance) ==
    [item |-> ContextItem("module", ModuleId(module), module.name, 8, itemRelevance, <<>>),
     parent |-> Absent, checked |-> TRUE]

\* the item addClassToContext pushes
ClassCandidate(cls, module, itemRelevance) ==
    [item |-> ContextItem("class", ClassId(cls.name), cls.name, 7, itemRelevance,
                          <<ModuleId(module)>>),
     parent |-> ModuleId(module), checked |-> TRUE]

\* the item addAttributeToContext pushes
AttributeCandidate(attr, cls, module, itemRelevance) ==
    [item |-> ContextItem("attribute",
                          Concat(<<Chars("attribute_"), ToLowerCase(cls.name),
                                   Chars("_"), ToLowerCase(attr.name)>>),
                          attr.name, 5, itemRelevance, <<ClassId(cls.name)>>),
     parent |-> ClassId(cls.name), checked |-> TRUE]

\* the item addAssociationToContext pushes
AssociationCandidate(assoc, cls, module, itemRelevance) ==
    [item |-> ContextItem("association",
                          Concat(<<Chars("association_"), ToLowerCase(cls.name),
                                   Chars("_"), ToLowerCase(assoc.name)>>),
                          assoc.name, 6, itemRelevance,
                          <<ClassId(cls.name), ClassId(assoc.target)>>),
     parent |-> ClassId(cls.name), checked |-> TRUE]

\* ContextBuilder.analyzeConceptModel: the calls of add...ToContext it makes,
\* in order
analyzeConceptModel(modules, query, limit) ==
    LET OfModule(module) ==
            LET OfClass(cls) ==
                    LET OfAttribute(attr) ==
                            LET attrRelevance == RelevanceOf(attr.name, attr.type, query)
                            IN  IF FracGeq(attrRelevance, limit)
                                THEN <<AttributeCandidate(attr, cls, module,
                                                          attrRelevance)>>
                                ELSE <<>>
                        OfAssociation(assoc) ==
                            LET assocRelevance ==
                                    FracMax(calculateRelevance(assoc.name, query),
                                            calculateRelevance(assoc.target, query))
                            IN  IF FracGeq(assocRelevance, limit)
                                THEN <<AssociationCandidate(assoc, cls, module,
                                                            assocRelevance)>>
                                ELSE <<>>
                        classRelevance == RelevanceOf(cls.name, cls.description, query)
                    IN  (IF FracGeq(classRelevance, limit)
                         THEN <<ClassCandidate(cls, module, classRelevance)>>
                         ELSE <<>>)
                        \o FlatMap(OfAttribute, cls.attributes)
                        \o FlatMap(OfAssociation, cls.associations)
                moduleRelevance == RelevanceOf(module.name, module.description, query)
            IN  (IF FracGeq(moduleRelevance, limit)
                 THEN <<ModuleCandidate(module, moduleRelevance)>> ELSE <<>>)
                \o FlatMap(OfClass, module.classes)
    IN  FlatMap(OfModule, modules)

\* an EncodingDocument that is not set, and one with a model
NullEncodingDoc == [isNull |-> TRUE, encodingRules |-> <<>>, examples |-> <<>>]
EncodingDoc(encodingRules, examples) ==
    [isNull |-> FALSE, encodingRules |-> encodingRules, examples |-> examples]

\* a SchemaRegistry that is not set, and one with its two indexes, each a
\* list of names with the declarations of the name, in insertion order
NullRegistry == [isNull |-> TRUE, elementsByName |-> <<>>, typesByName |-> <<>>]
Registry(elementsByName, typesByName) ==
    [isNull |-> FALSE, elementsByName |-> elementsByName, typesByName |-> typesByName]

IsWhitespace(c) == c \in {" ", "\t", "\n"}

\* s.replace(/\s+/g, '_')
RECURSIVE ReplaceWhitespace(_)
ReplaceWhitespace(s) ==
    IF s = <<>> THEN <<>>
    ELSE IF IsWhitespace(Head(s))
         THEN IF Len(s) > 1 /\ IsWhitespace(s[2])
              THEN ReplaceWhitespace(Tail(s))
              ELSE <<"_">> \o ReplaceWhitespace(Tail(s))
         ELSE <<Head(s)>> \o ReplaceWhitespace(Tail(s))

\* the ids class_<name> of class names, each once
RECURSIVE RelatedClassIds(_)
RelatedClassIds(classNames) ==
    IF classNames = <<>> THEN <<>>
    ELSE LET before == RelatedClassIds(SubSeq(classNames, 1, Len(classNames) - 1))
             classId == ClassId(Last(classNames))
         IN  IF \E k \in DOMAIN before : before[k] = classId
             THEN before ELSE Append(before, classId)

\* the item addRuleToContext pushes; it is pushed whatever the items hold,
\* and totalItems is left as it is
RuleCandidate(rule, itemRelevance) ==
    [item |-> ContextItem("encoding_rule",
                          Chars("rule_") \o ReplaceWhitespace(ToLowerCase(rule.name)),
                          IF rule.name # <<>> THEN rule.name ELSE Chars("Unnamed Rule"),
                          6, itemRelevance, RelatedClassIds(rule.appliesTo)),
     parent |-> Absent, checked |-> FALSE]

\* the item addExampleToContext pushes for an example with a title; it is
\* pushed whatever the items hold, and totalItems is left as it is
ExampleCandidate(example, itemRelevance) ==
    [item |-> ContextItem("example",
                          Chars("example_")
                            \o ReplaceWhitespace(ToLowerCase(example.title)),
                          example.title, 4, itemRelevance,
                          RelatedClassIds(example.relatedClasses)),
     parent |-> Absent, checked |-> FALSE]

\* the item addElementToContext pushes
ElementCandidate(element, elementName, itemRelevance) ==
    [item |-> ContextItem("element", Chars("element_") \o ToLowerCase(elementName),
                          elementName, 5, itemRelevance,
                          IF element.type # <<>>
                          THEN <<Chars("type_")
                                 \o ToLowerCase(StripNamespace(element.type))>>
                          ELSE <<>>),
     parent |-> Absent, checked |-> TRUE]

\* the item addTypeToContext pushes
TypeCandidate(type, typeName, itemRelevance) ==
    [item |-> ContextItem("type", Chars("type_") \o ToLowerCase(typeName),
                          typeName, 5, itemRelevance,
                          IF type.isComplex /\ type.base # <<>>
                          THEN <<Chars("type_")
                                 \o ToLowerCase(StripNamespace(type.base))>>
                          ELSE <<>>),
     parent |-> Absent, checked |-> TRUE]

\* ContextBuilder.analyzeEncodingDoc: the calls of addRuleToContext and
\* addExampleToContext it makes, in order
analyzeEncodingDoc(doc, query, limit) ==
    LET OfRule(rule) ==
            LET ruleRelevance == RelevanceOf(rule.name, rule.description, query)
            IN  IF FracGeq(ruleRelevance, limit)
                THEN <<RuleCandidate(rule, ruleRelevance)>> ELSE <<>>
        OfExample(example) ==
            LET exampleRelevance ==
                    FracMax(IF example.title # <<>>
                            THEN calculateRelevance(example.title, query)
                            ELSE Frac(0, 1),
                            IF example.description # <<>>
                            THEN calculateRelevance(example.description, query)
                            ELSE Frac(0, 1))
            IN  IF FracGeq(exampleRelevance, limit)
                THEN <<ExampleCandidate(example, exampleRelevance)>> ELSE <<>>
    IN  FlatMap(OfRule, doc.encodingRules) \o FlatMap(OfExample, doc.examples)

\* one index of the registry: the declarations of the names whose relevance
\* meets the threshold, each scored as the higher of the name relevance and
\* the relevance of its documentation
analyzeRegistryIndex(index, query, limit, Candidate(_, _, _)) ==
    LET OfName(entry) ==
            LET nameRelevance == calculateRelevance(entry.name, query)
                OfDeclaration(declaration) ==
                    LET itemRelevance ==
                            FracMax(nameRelevance,
                                    IF declaration.documentation # <<>>
                                    THEN calculateRelevance(declaration.documentation,
                                                            query)
                                    ELSE Frac(0, 1))
                    IN  IF FracGeq(itemRelevance, limit)
                        THEN <<Candidate(declaration, entry.name, itemRelevance)>>
                        ELSE <<>>
            IN  IF FracGeq(nameRelevance, limit)
                THEN FlatMap(OfDeclaration, entry.declarations) ELSE <<>>
    IN  FlatMap(OfName, index)

\* ContextBuilder.analyzeSchemaRegistry: the calls of addElementToContext
\* and addTypeToContext it makes, in order
analyzeSchemaRegistry(registry, query, limit) ==
    analyzeRegistryIndex(registry.elementsByName, query, limit, ElementCandidate)
    \o analyzeRegistryIndex(registry.typesByName, query, limit, TypeCandidate)

\* Body of a value that is computed once
Bind(value, Body(_)) == CHOOSE result \in {Body(v) : v \in {value}} : TRUE

\* the items after the add...ToContext calls of candidates, in order: a
\* candidate of a method that checks the ids and whose id the items have is
\* dropped, another is pushed, and its id is pushed to the related items of
\* its parent item if the items have that one by then
addToContext(items, candidates) ==
    LET IsPushed(i) ==
            \/ ~candidates[i].checked
            \/ /\ \A k \in DOMAIN items : items[k].id # candidates[i].item.id
               /\ \A k \in 1..(i - 1) : candidates[k].item.id # candidates[i].item.id
        CandidateItem(i) == candidates[i].item
        OfPushed(pushed) ==
            LET OfAll(all) ==
                    LET WithRelated(p) ==
                            LET IsChild(n) ==
                                    /\ candidates[pushed[n]].parent = all[p].id
                                    /\ Len(items) + n > p
                                    /\ \A k \in DOMAIN all[p].relatedItems :
                                            all[p].relatedItems[k]
                                                # candidates[pushed[n]].item.id
                                ChildId(n) == candidates[pushed[n]].item.id
                            IN  [all[p] EXCEPT !.relatedItems =
                                    @ \o MapSeq(ChildId,
                                                FilterSeq(IsChild,
                                                          [n \in DOMAIN pushed |-> n]))]
                    IN  MapSeq(WithRelated, [p \in DOMAIN all |-> p])
            IN  Bind(items \o MapSeq(CandidateItem, pushed), OfAll)
    IN  Bind(FilterSeq(IsPushed, [i \in DOMAIN candidates |-> i]), OfPushed)

\* importance * 0.5 + relevance * 0.5, twice
Score(item) == FracAdd(Frac(item.importance, 1), item.relevance)

\* a change such as a bug would make: the items are left in push order
SortByScore_PushOrder(items) == items

\* items.sort((a, b) => scoreB - scoreA): by falling score, items of equal
\* score in their order
SortByScore(items) ==
    LET Before(i, k) ==
            \/ ~FracGeq(Score(items[k]), Score(items[i]))
            \/ FracEq(Score(items[i]), Score(items[k])) /\ i < k
        Rank(i) == Cardinality({k \in DOMAIN items : Before(k, i)}) + 1
        At(r) == items[CHOOSE i \in DOMAIN items : Rank(i) = r]
    IN  MapSeq(At, [r \in DOMAIN items |-> r])

\* the items that add to totalItems when they are pushed: all but the
\* items of addRuleToContext and addExampleToContext
IsCounted(item) == item.type \notin {"encoding_rule", "example"}

\* ContextBuilder.analyzeQuery with a query: the context after it; a source
\* that is not set has nothing to analyze.  optimizeContext sorts the
\* items; its summary is left out.
analyzeQuery(ctx, modules, doc, registry, limit) ==
    LET OfCandidates(candidates) ==
            LET OfItems(items) ==
                    [ctx EXCEPT
                        !.items = SortByScore(items),
                        !.metadata.totalItems =
                            @ + Len(FilterSeq(IsCounted, items))
                              - Len(FilterSeq(IsCounted, ctx.items))]
            IN  Bind(addToContext(ctx.items, candidates), OfItems)
    IN  Bind(analyzeConceptModel(modules, ToLowerCase(ctx.query), limit)
             \o analyzeEncodingDoc(doc, ToLowerCase(ctx.query), limit)
             \o analyzeSchemaRegistry(registry, ToLowerCase(ctx.query), limit),
             OfCandidates)

-----------------------------------------------------------------------------
(* The schema files of the model: a few fixed module files, and probe      *)
(* files that hold one complexType varied along one axis at a time.        *)

C_AbstractCityObject ==
    XsComplexType(Chars("AbstractCityObject"), Chars("true"),
        <<Chars("gml:AbstractFeature")>>,
        <<XsElement(Chars("creationDate"), Chars("xs:dateTime"), Absent,
                    Chars("0"), Absent, TRUE)>>,
        <<>>,
        <<Chars("a city object must have an identifier")>>)

C_AbstractOccupiedSpace ==
    XsComplexType(Chars("AbstractOccupiedSpace"), Chars("true"),
        <<Chars("core:AbstractCityObject")>>,
        <<XsElement(Chars("lod1Solid"), Chars("gml:SolidPropertyType"), Absent,
                    Chars("0"), Absent, TRUE)>>,
        <<>>, <<>>)

C_AbstractBuilding ==
    XsComplexType(Chars("AbstractBuilding"), Chars("true"),
        <<Chars("core:AbstractOccupiedSpace")>>,
        <<XsElement(Chars("function"), Chars("gml:CodeType"), Absent,
                    Chars("0"), Chars("unbounded"), TRUE),
          XsElement(Absent, Absent, Chars("bldg:buildingPart"),
                    Chars("0"), Chars("unbounded"), TRUE)>>,
        <<>>,
        <<Chars("building"), Chars("the function should be a code")>>)

C_Building ==
    XsComplexType(Chars("Building"), Absent,
        <<Chars("bldg:AbstractBuilding")>>,
        <<XsElement(Chars("lod2Solid"), Chars("gml:SolidPropertyType"), Absent,
                    Chars("0"), Absent, TRUE),
          XsElement(Chars("roofType"), Chars("bldg:RoofTypeValue"), Absent,
                    Absent, Absent, TRUE)>>,
        <<XsAttribute(Chars("function"), Chars("xs:string"), Absent, Chars("required"))>>,
        <<>>)

C_Wall ==
    XsComplexType(Chars("Wall"), Absent,
        <<Chars("bldg:AbstractBuildingSubdivision")>>,
        <<XsElement(Absent, Absent, Chars("bldg:opening"), Chars("0"),
                    Chars("unbounded"), TRUE),
          XsElement(Absent, Absent, Chars("gml:remark"), Absent, Absent, FALSE),
          XsElement(Chars("usage"), Chars("gml:CodeType"), Absent, Chars("0"),
                    Absent, TRUE)>>,
        <<XsAttribute(Absent, Absent, Chars("gml:remark"), Absent),
          XsAttribute(Absent, Absent, Chars("xlink:href"), Absent),
          XsAttribute(Chars("usage"), Chars("gml:CodeType"), Absent, Absent)>>,
        <<>>)

\* two types whose names and bases join to the same text
C_W ==
    XsComplexType(Chars("W"), Absent, <<Chars("A_B")>>, <<>>, <<>>, <<>>)

C_Bridge ==
    XsComplexType(Chars("Bridge"), Absent,
        <<Chars("core:AbstractOccupiedSpace")>>,
        <<XsElement(Chars("lod3MultiSurface"), Chars("gml:MultiSurfacePropertyType"),
                    Absent, Chars("0"), Chars("2"), FALSE)>>,
        <<>>, <<>>)

C_BridgePart ==
    XsComplexType(Chars("BridgePart"), Absent,
        <<Chars("brid:Bridge")>>,
        <<>>, <<>>, <<>>)

\* a type whose name has two words for \W, and whose documentation says
\* them three times
C_DeckPlate ==
    XsComplexType(Chars("Deck-Plate"), Absent, <<Chars("brid:Bridge")>>,
        <<>>, <<>>, <<Chars("plate deck deck")>>)

\* an anonymous complexType: it has no name attribute
C_Anonymous ==
    XsComplexType(Absent, Absent, <<Chars("gml:AbstractFeature")>>,
        <<XsElement(Chars("member"), Chars("gml:FeaturePropertyType"), Absent,
                    Absent, Absent, TRUE)>>,
        <<>>, <<>>)

F_core ==
    XsdFile(Chars("core.xsd"), "ok", Chars("urn:core"),
        <<Chars("core module")>>, <<>>,
        <<C_AbstractCityObject, C_AbstractOccupiedSpace>>, <<>>)

F_building ==
    XsdFile(Chars("building.xsd"), "ok", Chars("urn:bldg"),
        <<>>, <<Chars("core.xsd")>>,
        <<C_AbstractBuilding, C_Building, C_Wall, C_W>>,
        <<XsSimpleType(Chars("RoofTypeValue"), <<Chars("flat"), Chars("gabled")>>),
          XsSimpleType(Chars("MaterialEnumBase"), <<Chars("brick")>>)>>)

F_bridge ==
    XsdFile(Chars("./bridge.xsd"), "ok", Absent,
        <<Chars("bridge module")>>, <<Chars("./core.xsd")>>,
        <<C_Anonymous, C_Bridge, C_BridgePart, C_DeckPlate>>, <<>>)

F_unreadable ==
    XsdFile(Chars("tunnel.xsd"), "unreadable", Absent, <<>>, <<>>, <<>>, <<>>)

\* a document whose root is not xs:schema
F_noSchema ==
    XsdFile(Chars("generics.xsd"), "noSchema", Absent, <<>>, <<>>,
        <<C_BridgePart>>, <<>>)

FixedFiles == {F_core, F_building, F_bridge, F_unreadable}

ProbeTypeNames ==
    {Chars("PlantCover"), Chars("Building"), Chars("Shrub"),
     Chars("Bridge"), Chars("W"), Chars("W_A")}

ProbeBases ==
    {Absent, Chars("core:AbstractOccupiedSpace"), Chars("bldg:Building"),
     Chars("veg:PlantCover"), Chars("B"), Chars("A_B")}

MinOccursValues ==
    {Absent, Chars("0"), Chars("1"), Chars("2"), Chars("4"), Chars("01")}
MaxOccursValues == {Absent, Chars("0"), Chars("1"), Chars("2"), Chars("10"),
                    Chars("unbounded")}

ProbeElementNames ==
    {Chars("lod2Solid"), Chars("lod0FootPrint"), Chars("LOD1lod2Geometry"),
     Chars("function"), Chars("boundedBy"), Chars("description")}

ProbeElementTypes ==
    {Chars("gml:SolidPropertyType"), Chars("gml:MultiSurfacePropertyType"),
     Chars("xs:string"), Chars("bldg:RoofTypeValue"),
     Chars("bldg:MaterialEnumBase"), Chars("gml:CodeType")}

ProbeType(name, base, elements, attributes) ==
    XsComplexType(name, Absent, IF base = Absent THEN <<>> ELSE <<base>>,
                  elements, attributes, <<>>)

ProbeTypes ==
    {ProbeType(n, b, <<>>, <<>>) : n \in ProbeTypeNames, b \in ProbeBases}
    \cup {ProbeType(Chars("PlantCover"), Chars("core:AbstractOccupiedSpace"),
                    <<XsElement(Chars("height"), Chars("gml:LengthType"), Absent,
                                mn, mx, TRUE)>>, <<>>) :
            mn \in MinOccursValues, mx \in MaxOccursValues}
    \cup {ProbeType(Chars("PlantCover"), Chars("core:AbstractOccupiedSpace"),
                    <<XsElement(n, t, Absent, Chars("0"), Absent, TRUE)>>, <<>>) :
            n \in ProbeElementNames, t \in ProbeElementTypes}
    \cup {ProbeType(Chars("PlantCover"), Chars("core:AbstractOccupiedSpace"),
                    <<>>, <<XsAttribute(n, t, Absent, u)>>) :
            n \in {Chars("function"), Chars("source")},
            t \in ProbeElementTypes,
            u \in {Absent, Chars("required"), Chars("optional")}}

ProbeFiles ==
    {XsdFile(Chars("vegetation.xsd"), "ok",
             Chars("urn:veg"),
             <<>>, <<>>, <<t>>, <<>>) : t \in ProbeTypes}

\* the longest list of fixed files before the probe file
MaxFiles == 1

RECURSIVE SeqsUpTo(_, _)
SeqsUpTo(S, n) ==
    IF n = 0 THEN {<<>>}
    ELSE LET shorter == SeqsUpTo(S, n - 1)
         IN  shorter \cup {Append(l, x) : l \in shorter, x \in S}

FileLists ==
    LET fixed == SeqsUpTo(FixedFiles, MaxFiles)
    IN  fixed \cup {Append(l, p) : l \in fixed, p \in ProbeFiles}

\* element names with and without the markers of a member and of a part
KindElementNames ==
    {Chars("boundaryMember"), Chars("membersOf"), Chars("buildingPart"),
     Chars("partsList"), Chars("partsMember"), Chars("memberPart"),
     Chars("Members"), Chars("address")}

KindElementTypes ==
    {Chars("core:AddressPropertyType"), Chars("AddressType"), Chars("xs:string")}

\* a complexType, named or not, with one typed element or one reference
KindProbeTypes ==
    {XsComplexType(typeName, Absent, <<>>,
                   <<XsElement(n, t, Absent, Chars("0"), Chars("unbounded"), TRUE)>>,
                   <<>>, <<>>) :
        typeName \in {Chars("CityModel"), Absent},
        n \in KindElementNames, t \in KindElementTypes}
    \cup {XsComplexType(typeName, Absent, <<>>,
                        <<XsElement(Absent, Absent, Chars("core:address"), Chars("0"),
                                    Absent, inSequence)>>,
                        <<>>, <<>>) :
            typeName \in {Chars("CityModel"), Absent}, inSequence \in BOOLEAN}

KindLists ==
    {<<XsdFile(Chars("cityobjectgroup.xsd"), "ok", Chars("urn:grp"),
               <<>>, <<>>, <<t>>, <<>>)>> : t \in KindProbeTypes}

\* a complexType with an xlink:href attribute reference, with the group
\* given as an <xs:attributeGroup ref=/> below it or as an XML attribute
XlinkProbeType(typeName, attributeGroup, attributeGroupRefs) ==
    [XsComplexType(typeName, Absent, <<>>, <<>>,
                   <<XsAttribute(Absent, Absent, Chars("xlink:href"), Absent)>>, <<>>)
        EXCEPT !.attributeGroup = attributeGroup,
               !.attributeGroupRefs = attributeGroupRefs]

XlinkGroupNames ==
    {Chars("gml:SurfacePropertyType"), Chars("SolidPropertyType"),
     Chars("gml:PropertyTypeOfPropertyType"), Chars("gml:PropertyType"),
     Chars("gml:AssociationAttributeGroup"), Chars("gml:PropertyTypes")}

XlinkProbeTypes ==
    {XlinkProbeType(typeName, Absent, <<>>) : typeName \in {Chars("Opening"), Absent}}
    \cup {XlinkProbeType(typeName, group, <<>>) :
            typeName \in {Chars("Opening"), Absent}, group \in XlinkGroupNames}
    \cup {XlinkProbeType(Chars("Opening"), Absent, <<group>>) :
            group \in XlinkGroupNames}

XlinkLists ==
    {<<XsdFile(Chars("construction.xsd"), "ok", Chars("urn:con"),
               <<>>, <<>>, <<t>>, <<>>)>> : t \in XlinkProbeTypes}

\* a file with one simpleType: with and without a name, with and without
\* enumeration facets, the name with EnumBase at its end or elsewhere
SimpleTypeNames ==
    {Absent, Chars("RoofTypeValue"), Chars("MaterialEnumBase"), Chars("EnumBase"),
     Chars("EnumBaseValues"), Chars("enumbase")}

SimpleTypeLists ==
    {<<XsdFile(Chars("appearance.xsd"), "ok", Chars("urn:app"), <<>>, <<>>, <<>>,
               <<XsSimpleType(n, v)>>)>> :
        n \in SimpleTypeNames, v \in {<<>>, <<Chars("red")>>}}

\* elements with LOD names of several levels, with and without a geometry
\* type, and elements without an LOD name
LodProbeElements ==
    {XsElement(Chars("lod0FootPrint"), Chars("gml:MultiSurfacePropertyType"), Absent,
               Chars("0"), Absent, TRUE),
     XsElement(Chars("lod1Solid"), Chars("gml:SolidPropertyType"), Absent,
               Chars("0"), Absent, TRUE),
     XsElement(Chars("lod2Solid"), Chars("gml:SolidPropertyType"), Absent,
               Chars("0"), Absent, TRUE),
     XsElement(Chars("lod3Name"), Chars("xs:string"), Absent,
               Chars("0"), Absent, TRUE),
     XsElement(Chars("LODGroup"), Chars("xs:string"), Absent,
               Chars("0"), Absent, TRUE),
     XsElement(Chars("height"), Chars("gml:LengthType"), Absent,
               Chars("0"), Absent, TRUE)}

\* a city object class with two of these elements in either order, or the
\* levels 1, 0, 2 in this order
LodLists ==
    {<<XsdFile(Chars("vegetation.xsd"), "ok", Chars("urn:veg"), <<>>, <<>>,
               <<ProbeType(Chars("PlantCover"), Chars("core:AbstractOccupiedSpace"),
                           elements, <<>>)>>, <<>>)>> :
        elements \in {<<a, b>> : a, b \in LodProbeElements}
                        \cup {<<a, b, c>> : a, b, c \in
                                {e \in LodProbeElements :
                                    e.type = Chars("gml:SolidPropertyType")
                                    \/ e.name = Chars("lod0FootPrint")}}}

\* lists of a file that loads and one that does not, in both orders
FailureLists ==
    LET pairs == {F_core, F_building} \X {F_unreadable, F_bridge, F_noSchema}
    IN  {<<pair[1], pair[2]>> : pair \in pairs}
            \cup {<<pair[2], pair[1]>> : pair \in pairs}

-----------------------------------------------------------------------------
(* Values of the variables a specification leaves alone                    *)

NoScore == Frac(0, 0)

RelParked ==
    /\ str1 = <<>> /\ str2 = <<>>
    /\ relevance = NoScore /\ prevRelevance = NoScore
    /\ relPc = "off"

ConceptParked ==
    /\ conceptModel = <<>>
    /\ conceptRuns = 0
    /\ conceptResults = <<>>

\* conceptualModel = null, as the constructor leaves it
NullModel == [isNull |-> TRUE, modules |-> <<>>]
SetModel(modules) == [isNull |-> FALSE, modules |-> modules]

ObjParked ==
    /\ objModel = NullModel
    /\ cityObjects = <<>>
    /\ objPc = "idle"
    /\ objectsByModule = <<>>
    /\ classifyPc = "idle"
    /\ geometryRepresentations = <<>>
    /\ geometryPc = "idle"

NoSummary ==
    [requiredAttributes |-> <<>>, optionalAttributes |-> <<>>,
     multiValuedAttributes |-> <<>>]

AttrParked ==
    /\ attrModel = NullModel
    /\ allAttributes = <<>>
    /\ attrPc = "idle"
    /\ cardinalitySummary = NoSummary
    /\ cardPc = "idle"
    /\ allCodelists = <<>>
    /\ codelistPc = "idle"

CtxParked ==
    /\ builderModel = NullModel
    /\ context = NewContext
    /\ analyses = 0
    /\ lastAnalysis = [query |-> Absent, threshold |-> Frac(1, 2), withModel |-> FALSE]
    /\ encodingDoc = NullEncodingDoc
    /\ schemaRegistry = NullRegistry
    /\ built = FALSE
    /\ builtContext = NewContext

NoModuleRelationships ==
    [dependencies |-> <<>>, crossModuleAssociations |-> <<>>,
     crossModuleGeneralizations |-> <<>>]

NoMultiplicityAnalysis ==
    [oneToOne |-> <<>>, oneToMany |-> <<>>, manyToOne |-> <<>>, manyToMany |-> <<>>]

RxParked ==
    /\ extractorsSet = FALSE
    /\ moduleXsdDocs = <<>>
    /\ relationships = <<>>
    /\ debugLog = <<>>
    /\ relationPc = "idle"
    /\ rxModel = NullModel
    /\ moduleRelationships = NoModuleRelationships
    /\ modulePc = "idle"
    /\ multiplicitySummary = NoMultiplicityAnalysis
    /\ multiplicityPc = "idle"

-----------------------------------------------------------------------------
(* Specification SpecRelevance: one call of calculateRelevance on two      *)
(* bounded strings, then the call with the arguments exchanged.            *)

MaxStrLen == 5
MaxQueryLen == 4
RelAlphabet == {"a", "A", " "}

RECURSIVE StringsUpTo(_, _)
StringsUpTo(alphabet, n) ==
    IF n = 0 THEN {<<>>}
    ELSE LET shorter == StringsUpTo(alphabet, n - 1)
         IN  shorter \cup {Append(s, c) : s \in shorter, c \in alphabet}

RelInit ==
    /\ str1 \in StringsUpTo(RelAlphabet, MaxStrLen)
    /\ str2 \in StringsUpTo(RelAlphabet, MaxQueryLen)
    /\ relevance = NoScore
    /\ prevRelevance = NoScore
    /\ relPc = "idle"
    /\ files = <<>>
    /\ ConceptParked
    /\ ObjParked
    /\ AttrParked
    /\ RxParked
    /\ CtxParked

CalculateRelevance ==
    /\ relPc = "idle"
    /\ relevance' = calculateRelevance(str1, str2)
    /\ relPc' = "scored"
    /\ UNCHANGED <<str1, str2, prevRelevance, files, conceptVars, objVars, attrVars, rxVars, ctxVars>>

SwapArguments ==
    /\ relPc = "scored"
    /\ str1' = str2
    /\ str2' = str1
    /\ prevRelevance' = relevance
    /\ relevance' = calculateRelevance(str2, str1)
    /\ relPc' = "swapped"
    /\ UNCHANGED <<files, conceptVars, objVars, attrVars, rxVars, ctxVars>>

RelNext == CalculateRelevance \/ SwapArguments

SpecRelevance == RelInit /\ [][RelNext]_vars

\* C3: calculateRelevance(s, t) is a value in [0, 1] for all strings s and t.
C3_RelevanceInRange ==
    relPc \in {"scored", "swapped"} =>
        /\ 0 <= relevance.num
        /\ relevance.num <= relevance.den

\* C4: calculateRelevance(s, t) = calculateRelevance(t, s) for all strings
\* s and t.
C4_RelevanceSymmetric ==
    relPc = "swapped" => FracEq(relevance, prevRelevance)

-----------------------------------------------------------------------------
(* Specification SpecConcept: extractAllModules, called on a new extractor  *)
(* or again on the same one, over a file set that does not change.          *)

MaxRuns == 2

ConceptInit ==
    /\ files \in FileLists \cup SimpleTypeLists
    /\ ConceptParked
    /\ RelParked
    /\ ObjParked
    /\ AttrParked
    /\ RxParked
    /\ CtxParked

\* ConceptExtractor.extractAllModules
ExtractAllModules ==
    /\ conceptRuns < MaxRuns
    /\ conceptModel' = processImports(conceptModel, files)
    /\ conceptResults' = Append(conceptResults, conceptModel')
    /\ conceptRuns' = conceptRuns + 1
    /\ UNCHANGED <<files, relVars, objVars, attrVars, rxVars, ctxVars>>

\* new ConceptExtractor(xsdBasePath)
NewConceptExtractor ==
    /\ conceptRuns < MaxRuns
    /\ conceptModel # <<>>
    /\ conceptModel' = <<>>
    /\ UNCHANGED <<conceptRuns, conceptResults, files, relVars, objVars, attrVars, rxVars, ctxVars>>

ConceptNext == ExtractAllModules \/ NewConceptExtractor

SpecConcept == ConceptInit /\ [][ConceptNext]_vars

ModelClasses(modules) ==
    UNION {Range(modules[i].classes) : i \in DOMAIN modules}

AttributeName(a) == a.name
ClassShape(c) == [name |-> c.name, attributes |-> MapSeq(AttributeName, c.attributes)]
ModuleShape(m) == [name |-> m.name, classes |-> MapSeq(ClassShape, m.classes)]
\* the names and counts of the modules, classes and attributes of a model
ModelShape(modules) == MapSeq(ModuleShape, modules)

\* C2: the second run of extractAllModules over an unchanged file set yields
\* a model structurally equal to the first run's.
C2_ExtractionIdempotent ==
    Len(conceptResults) >= 2 =>
        ModelShape(conceptResults[2]) = ModelShape(conceptResults[1])

AllAttributesOf(modules) ==
    UNION {Range(c.attributes) : c \in ModelClasses(modules)}

\* AttributeExtractor.analyzeCardinality reads the maximum of a cardinality
\* as cardinality.split('..')[1], '*' or a number for parseInt; the minimum is
\* the part before the separator
CardinalityParts(cardinality) == Split(cardinality, Chars(".."))

ParseBound(part) ==
    IF part = Chars("*") THEN [star |-> TRUE, number |-> NaN]
    ELSE [star |-> FALSE, number |-> ParseInt(part)]

ParseCardinality(cardinality) ==
    [min |-> ParseBound(CardinalityParts(cardinality)[1]),
     max |-> ParseBound(CardinalityParts(cardinality)[2])]

SerializeBound(bound) ==
    IF bound.star THEN Chars("*") ELSE NatToString(bound.number.value)

SerializeCardinality(parsed) ==
    Concat(<<SerializeBound(parsed.min), Chars(".."), SerializeBound(parsed.max)>>)

\* C6: every attribute cardinality the Concept Extractor emits splits on ".."
\* into two parts a and b; a is an integer, b is the literal * or an integer,
\* and parsing, serializing and parsing again reproduces the same minimum and
\* the same maximum (* iff b is the literal *, else the integer b).
C6_CardinalityRoundTrip ==
    \A a \in AllAttributesOf(conceptModel) :
        LET parts == CardinalityParts(a.cardinality)
            parsed == ParseCardinality(a.cardinality)
        IN  /\ Len(parts) = 2
            /\ ~parsed.min.star /\ ~parsed.min.number.isNaN
            /\ parsed.max.star <=> parts[2] = Chars("*")
            /\ ~parsed.max.star =>
                    /\ ~parsed.max.number.isNaN
                    /\ parsed.max.number = ParseInt(parts[2])
            /\ ParseCardinality(SerializeCardinality(parsed)) = parsed

\* a model with an unbounded element, an element with a numeric maximum
\* above 1 and an XSD attribute
C6_Witness ==
    /\ conceptRuns > 0
    /\ \E a \in AllAttributesOf(conceptModel) : a.cardinality = Chars("1..*")
    /\ \E a \in AllAttributesOf(conceptModel) : a.cardinality = Chars("0..1")

-----------------------------------------------------------------------------
(* Specification SpecObjects: an ObjectExtractor is given the conceptual    *)
(* model extracted from the files, and extractAllCityObjects is called,     *)
(* before or after the model is set.                                        *)

ObjInit ==
    /\ files \in FileLists \cup LodLists
    /\ ObjParked
    /\ ConceptParked
    /\ RelParked
    /\ AttrParked
    /\ RxParked
    /\ CtxParked

\* ObjectExtractor.setConceptualModel, with the model of a ConceptExtractor
SetConceptualModel ==
    /\ objModel.isNull
    /\ objModel' = SetModel(processImports(<<>>, files))
    /\ UNCHANGED <<cityObjects, objPc, objectsByModule, classifyPc,
                   geometryRepresentations, geometryPc, files, conceptVars, relVars,
                   attrVars, rxVars, ctxVars>>

\* ObjectExtractor.extractAllCityObjects
ExtractAllCityObjects ==
    /\ objPc # "returned"
    /\ IF objModel.isNull
       THEN objPc' = "threw" /\ UNCHANGED cityObjects
       ELSE /\ cityObjects' = extractAllCityObjects(objModel.modules)
            /\ objPc' = "returned"
    /\ UNCHANGED <<objModel, objectsByModule, classifyPc, geometryRepresentations,
                   geometryPc, files, conceptVars, relVars, attrVars, rxVars, ctxVars>>

ObjNext == SetConceptualModel \/ ExtractAllCityObjects

SpecObjects == ObjInit /\ [][ObjNext]_vars

\* children(P): the children of the city object named P, none when the map
\* has no such object
ChildrenOf(map, P) == IF MapHas(map, P) THEN Range(MapGet(map, P).children) ELSE {}

\* C1, as claimed: for all classes C of the conceptual model, if P is in
\* C.superClasses then children(P) contains C.
C1_HierarchySymmetricAllClasses ==
    objPc = "returned" =>
        \A C \in ModelClasses(objModel.modules) :
            \A P \in Range(C.superClasses) : C.name \in ChildrenOf(cityObjects, P)

\* C1, amended: for all city objects C and P of the returned map, if P's
\* name is in C.superClasses then P.children contains C's name.
C1_HierarchySymmetric ==
    objPc = "returned" =>
        \A c, p \in DOMAIN cityObjects :
            cityObjects[p].key \in Range(cityObjects[c].value.superClasses)
                => cityObjects[c].key \in Range(cityObjects[p].value.children)

\* a returned map in which one city object is the superclass of another,
\* different, one
C1_Witness ==
    /\ objPc = "returned"
    /\ \E c, p \in DOMAIN cityObjects :
            /\ c # p
            /\ cityObjects[p].key \in Range(cityObjects[c].value.superClasses)

\* the positions at which name matches lod[0-9]
LodMatches(name) ==
    {i \in 1..(Len(name) - 3) :
        SubSeq(name, i, i + 2) = Chars("lod") /\ name[i + 3] \in Range(DigitChars)}

\* name matches lod<N>: N is the digit of the leftmost match
NameMatchesLod(name, N) ==
    /\ LodMatches(name) # {}
    /\ \E i \in LodMatches(name) :
            /\ \A k \in LodMatches(name) : i <= k
            /\ name[i + 3] = NatToString(N)[1]

\* C8: for a city-object class, an attribute whose name matches lod<N> and
\* whose type contains a geometry-vocabulary term is listed in
\* geometryProperties and in lodInfo.lodAttributes with level N, and is not
\* listed in thematicAttributes.
C8_LodGeometryAttribute ==
    objPc = "returned" =>
        \A e \in DOMAIN cityObjects :
            LET object == cityObjects[e].value
            IN  \A a \in Range(object.attributes) : \A N \in 0..9 :
                    (NameMatchesLod(a.name, N)
                     /\ IncludesAny(a.type, geometryClassPatterns))
                    => /\ \E g \in Range(object.geometryProperties) :
                            g.name = a.name /\ g.type = a.type
                       /\ \E l \in Range(object.lodInfo.lodAttributes) :
                            l.name = a.name /\ l.type = a.type /\ l.level = N
                       /\ \A t \in Range(object.thematicAttributes) :
                            t.name # a.name

-----------------------------------------------------------------------------
(* Specification SpecAttributes: an AttributeExtractor is given the         *)
(* conceptual model extracted from the files, and extractAllAttributes is   *)
(* called, before or after the model is set.                                *)

AttrInit ==
    /\ files \in FileLists
    /\ AttrParked
    /\ ObjParked
    /\ ConceptParked
    /\ RelParked
    /\ RxParked
    /\ CtxParked

\* AttributeExtractor.setConceptualModel, with the model of a ConceptExtractor
AttrSetConceptualModel ==
    /\ attrModel.isNull
    /\ attrModel' = SetModel(processImports(<<>>, files))
    /\ UNCHANGED <<allAttributes, attrPc, cardinalitySummary, cardPc, allCodelists,
                   codelistPc, files, conceptVars, relVars, objVars, rxVars, ctxVars>>

\* AttributeExtractor.extractAllAttributes
ExtractAllAttributes ==
    /\ attrPc # "returned"
    /\ IF attrModel.isNull
       THEN attrPc' = "threw" /\ UNCHANGED allAttributes
       ELSE /\ allAttributes' = extractAllAttributes(attrModel.modules)
            /\ attrPc' = "returned"
    /\ UNCHANGED <<attrModel, cardinalitySummary, cardPc, allCodelists, codelistPc,
                   files, conceptVars, relVars, objVars, rxVars, ctxVars>>

\* AttributeExtractor.analyzeCardinality
AnalyzeCardinality ==
    /\ cardPc # "returned"
    /\ IF attrModel.isNull
       THEN cardPc' = "threw" /\ UNCHANGED cardinalitySummary
       ELSE /\ cardinalitySummary' = analyzeCardinality(attrModel.modules)
            /\ cardPc' = "returned"
    /\ UNCHANGED <<attrModel, allAttributes, attrPc, allCodelists, codelistPc,
                   files, conceptVars, relVars, objVars, rxVars, ctxVars>>

AttrNext == AttrSetConceptualModel \/ ExtractAllAttributes \/ AnalyzeCardinality

SpecAttributes == AttrInit /\ [][AttrNext]_vars

ModuleClasses(module) == module.classes

\* the class of the model the entry of allAttributes with this name was
\* computed from: the last one of that name
LastClassNamed(modules, name) ==
    LET all == FlatMap(ModuleClasses, modules)
        last == CHOOSE i \in DOMAIN all :
                    all[i].name = name /\ \A k \in DOMAIN all : all[k].name = name => k <= i
    IN  all[last]

\* how often the attribute (name, type, cardinality) occurs in a list
Occurrences(list, a) ==
    Cardinality({i \in DOMAIN list :
        /\ list[i].name = a.name
        /\ list[i].type = a.type
        /\ list[i].cardinality = a.cardinality})

GeometryTypeNameMatch(a) ==
    \E pattern \in geometryTypePatterns : Includes(a.type, pattern)

MetadataNamePattern(a) ==
    \E pattern \in metadataAttributePatterns : Includes(a.name, pattern)

CodelistNameContained(a) ==
    \E m \in DOMAIN attrModel.modules :
        \E c \in Range(attrModel.modules[m].codelists) : Includes(a.type, c.name)

EnumerationNameContained(a) ==
    \E m \in DOMAIN attrModel.modules :
        \E c \in Range(attrModel.modules[m].enumerations) : Includes(a.type, c.name)

\* C9: extractClassAttributes places every attribute of a class in exactly
\* one of the five buckets geometry, metadata, codelist, enumeration, basic,
\* the first in that order whose test the attribute passes (geometry
\* type-name match, metadata name pattern, codelist-name containment,
\* enumeration-name containment, else basic).
C9_ExactlyOneBucketInPriorityOrder ==
    attrPc = "returned" =>
        \A e \in DOMAIN allAttributes :
            LET r == allAttributes[e].value
                class == LastClassNamed(attrModel.modules, allAttributes[e].key)
            IN  /\ \A a \in Range(class.attributes) :
                        Occurrences(r.geometryAttributes, a)
                        + Occurrences(r.metadataAttributes, a)
                        + Occurrences(r.codelistAttributes, a)
                        + Occurrences(r.enumerationAttributes, a)
                        + Occurrences(r.basicAttributes, a)
                        = Occurrences(class.attributes, a)
                /\ \A a \in Range(r.geometryAttributes) : GeometryTypeNameMatch(a)
                /\ \A a \in Range(r.metadataAttributes) :
                        ~GeometryTypeNameMatch(a) /\ MetadataNamePattern(a)
                /\ \A a \in Range(r.codelistAttributes) :
                        /\ ~GeometryTypeNameMatch(a) /\ ~MetadataNamePattern(a)
                        /\ CodelistNameContained(a)
                /\ \A a \in Range(r.enumerationAttributes) :
                        /\ ~GeometryTypeNameMatch(a) /\ ~MetadataNamePattern(a)
                        /\ ~CodelistNameContained(a) /\ EnumerationNameContained(a)
                /\ \A a \in Range(r.basicAttributes) :
                        /\ ~GeometryTypeNameMatch(a) /\ ~MetadataNamePattern(a)
                        /\ ~CodelistNameContained(a) /\ ~EnumerationNameContained(a)

\* the result for Building, of the building module followed by a class whose
\* attribute passes the geometry and the metadata test: the required
\* xs:string attribute function is in basicAttributes and in no other bucket
C9_Witness ==
    /\ attrPc = "returned"
    /\ MapHas(allAttributes, Chars("Building"))
    /\ LET r == MapGet(allAttributes, Chars("Building"))
       IN  /\ \E a \in Range(r.basicAttributes) :
                a.name = Chars("function") /\ a.type = Chars("string")
                /\ a.cardinality = Chars("1..1")
           /\ \A a \in Range(r.geometryAttributes) \cup Range(r.metadataAttributes)
                        \cup Range(r.codelistAttributes)
                        \cup Range(r.enumerationAttributes) :
                a.name # Chars("function")
           /\ r.geometryAttributes # <<>>
           /\ r.codelistAttributes # <<>>
    /\ \E e \in DOMAIN allAttributes :
            \E a \in Range(allAttributes[e].value.geometryAttributes) :
                MetadataNamePattern(a)

-----------------------------------------------------------------------------
(* Specification SpecRelationships: a RelationshipExtractor is given its    *)
(* extractors, and extractRelationships is called with the files, before or *)
(* after that.                                                              *)

RxInit ==
    /\ files \in FileLists \cup FailureLists \cup KindLists \cup XlinkLists
    /\ RxParked
    /\ AttrParked
    /\ ObjParked
    /\ ConceptParked
    /\ RelParked
    /\ CtxParked

analysisVars == <<moduleRelationships, modulePc, multiplicitySummary, multiplicityPc>>

\* RelationshipExtractor.setConceptExtractor and setObjectExtractor
SetExtractors ==
    /\ ~extractorsSet
    /\ extractorsSet' = TRUE
    /\ UNCHANGED <<moduleXsdDocs, relationships, debugLog, relationPc, rxModel,
                   analysisVars, files, conceptVars, relVars, objVars, attrVars,
                   ctxVars>>

\* RelationshipExtractor.setConceptualModel, with the model of a
\* ConceptExtractor: the extractors it lacks are made
RxSetConceptualModel ==
    /\ rxModel.isNull
    /\ rxModel' = SetModel(processImports(<<>>, files))
    /\ extractorsSet' = TRUE
    /\ UNCHANGED <<moduleXsdDocs, relationships, debugLog, relationPc,
                   analysisVars, files, conceptVars, relVars, objVars, attrVars,
                   ctxVars>>

\* RelationshipExtractor.extractRelationships
ExtractRelationships ==
    /\ relationPc # "returned"
    /\ IF ~extractorsSet
       THEN /\ relationPc' = "threw"
            /\ UNCHANGED <<moduleXsdDocs, relationships, debugLog>>
       ELSE LET result == extractRelationships(files)
            IN  /\ moduleXsdDocs' = result.moduleXsdDocs
                /\ relationships' = result.relationships
                /\ debugLog' = result.log
                /\ relationPc' = "returned"
    /\ UNCHANGED <<extractorsSet, rxModel, analysisVars, files, conceptVars, relVars,
                   objVars, attrVars, ctxVars>>

\* RelationshipExtractor.extractModuleRelationships, after an extraction
ExtractModuleRelationships ==
    /\ relationPc = "returned"
    /\ modulePc = "idle"
    /\ moduleRelationships' = extractModuleRelationships(rxModel, relationships)
    /\ modulePc' = "returned"
    /\ UNCHANGED <<extractorsSet, moduleXsdDocs, relationships, debugLog, relationPc,
                   rxModel, multiplicitySummary, multiplicityPc, files, conceptVars,
                   relVars, objVars, attrVars, ctxVars>>

\* RelationshipExtractor.analyzeRelationshipMultiplicity, after an extraction
AnalyzeRelationshipMultiplicity ==
    /\ relationPc = "returned"
    /\ multiplicityPc = "idle"
    /\ multiplicitySummary' = analyzeRelationshipMultiplicity(relationships)
    /\ multiplicityPc' = "returned"
    /\ UNCHANGED <<extractorsSet, moduleXsdDocs, relationships, debugLog, relationPc,
                   rxModel, moduleRelationships, modulePc, files, conceptVars,
                   relVars, objVars, attrVars, ctxVars>>

RxNext ==
    \/ SetExtractors
    \/ RxSetConceptualModel
    \/ ExtractRelationships
    \/ ExtractModuleRelationships
    \/ AnalyzeRelationshipMultiplicity

SpecRelationships == RxInit /\ [][RxNext]_vars

\* the (kind, source, target, role) tuple of a relationship
RelationshipTuple(r) == <<r.type, r.source, r.target, r.targetRole>>

\* C5: the relationship map never holds two entries with the same (kind,
\* source, target, role) tuple and different ids, and no two relationships
\* the extraction patterns produce for the same tuple have different ids.
C5_IdIsFunctionOfTuple ==
    /\ \A i, j \in DOMAIN relationships :
            RelationshipTuple(relationships[i].value)
                = RelationshipTuple(relationships[j].value)
            => relationships[i].value.id = relationships[j].value.id
    /\ \A i, j \in DOMAIN debugLog :
            RelationshipTuple(debugLog[i]) = RelationshipTuple(debugLog[j])
            => debugLog[i].id = debugLog[j].id

\* two patterns produced a relationship for the same tuple, with a role and
\* without one, and the map holds one entry for it
C5_Witness ==
    /\ relationPc = "returned"
    /\ \E i, j \in DOMAIN debugLog :
            /\ i < j
            /\ debugLog[i].targetRole # Absent
            /\ RelationshipTuple(debugLog[i]) = RelationshipTuple(debugLog[j])
            /\ MapHas(relationships, debugLog[i].id)
    /\ \E i, j \in DOMAIN debugLog :
            /\ i < j
            /\ debugLog[i].targetRole = Absent
            /\ RelationshipTuple(debugLog[i]) = RelationshipTuple(debugLog[j])
            /\ MapHas(relationships, debugLog[i].id)

\* the base of an extension without its namespace prefix
StrippedBase(base) ==
    IF \E k \in 1..Len(base) : base[k] = ":"
    THEN LET k == CHOOSE c \in 1..Len(base) :
                    base[c] = ":" /\ \A m \in 1..(c - 1) : base[m] # ":"
         IN  SubSeq(base, k + 1, Len(base))
    ELSE base

\* C7: for every named complexType T of a loaded file with an extension of
\* base B, the returned map has an entry with the id generalization_<T>_<B
\* without prefix>, source T, target the stripped base, source multiplicity
\* {0, *} and target multiplicity {1, 1}.
C7_GeneralizationEdges ==
    relationPc = "returned" =>
        \A d \in DOMAIN moduleXsdDocs :
            \A T \in Range(moduleXsdDocs[d].value.types) :
                \A B \in Range(T.bases) :
                    (T.name # Absent /\ B # Absent) =>
                        LET id == Chars("generalization_") \o T.name \o Chars("_")
                                    \o StrippedBase(B)
                        IN  /\ MapHas(relationships, id)
                            /\ LET r == MapGet(relationships, id)
                               IN  /\ r.type = "generalization"
                                   /\ r.source = T.name
                                   /\ r.target = StrippedBase(B)
                                   /\ r.sourceMultiplicity = Multiplicity(Num(0), Star)
                                   /\ r.targetMultiplicity
                                        = Multiplicity(Num(1), Finite(Num(1)))

-----------------------------------------------------------------------------
(* Specification SpecContext: a ContextBuilder is given the concept model   *)
(* extracted from fixed files, queries are set and analysed.                *)

MaxAnalyses == 2
MaxContextFiles == 1

Queries ==
    {Chars("Building"), Chars("BUILDING"), Chars("deck-plate"),
     Chars("core module"), Chars("solid"), Chars("CodeType")}

Thresholds == {Frac(0, 1), Frac(1, 2), Frac(1, 1)}

CtxInit ==
    /\ files \in SeqsUpTo(FixedFiles, MaxContextFiles)
    /\ CtxParked
    /\ RxParked
    /\ AttrParked
    /\ ObjParked
    /\ ConceptParked
    /\ RelParked

\* ContextBuilder.setConceptModel, with the model of a ConceptExtractor
CtxSetConceptModel ==
    /\ builderModel.isNull
    /\ builderModel' = SetModel(processImports(<<>>, files))
    /\ context' = [context EXCEPT !.metadata.sources =
                        IF \E i \in DOMAIN @ : @[i] = "concept_model"
                        THEN @ ELSE Append(@, "concept_model")]
    /\ UNCHANGED <<analyses, lastAnalysis, encodingDoc, schemaRegistry, built,
                   builtContext, files, conceptVars, relVars, objVars, attrVars,
                   rxVars>>

\* ContextBuilder.setQuery(query)
SetQueryTo(query) ==
    /\ analyses < MaxAnalyses
    /\ context.query # query
    /\ context' = [context EXCEPT !.query = query]
    /\ UNCHANGED <<builderModel, analyses, lastAnalysis, encodingDoc, schemaRegistry,
                   built, builtContext, files, conceptVars, relVars, objVars,
                   attrVars, rxVars>>

SetQuery == \E query \in Queries : SetQueryTo(query)

\* ContextBuilder.analyzeQuery(limit)
AnalyzeQueryWith(limit) ==
    /\ analyses < MaxAnalyses
    /\ analyses' = analyses + 1
    /\ lastAnalysis' = [query |-> context.query, threshold |-> limit,
                         withModel |-> ~builderModel.isNull]
    /\ IF context.query = Absent
       THEN UNCHANGED context
       ELSE context' = analyzeQuery(context,
                                    IF builderModel.isNull
                                    THEN <<>> ELSE builderModel.modules,
                                    encodingDoc, schemaRegistry, limit)
    /\ UNCHANGED <<builderModel, encodingDoc, schemaRegistry, built, builtContext,
                   files, conceptVars, relVars, objVars, attrVars, rxVars>>

AnalyzeQuery == \E limit \in Thresholds : AnalyzeQueryWith(limit)

CtxNext == CtxSetConceptModel \/ SetQuery \/ AnalyzeQuery

SpecContext == CtxInit /\ [][CtxNext]_vars

ItemsWithId(id) == {i \in DOMAIN context.items : context.items[i].id = id}

\* text equal to the query but for the case
EqualsQuery(text) == ToLowerCase(text) = ToLowerCase(context.query)

\* C10: after setQuery and the first analyzeQuery(threshold) of a builder
\* with a concept model, for every class of the model whose name equals the
\* query case-insensitively the context has an item with the id
\* class_<lowercased name> and relevance 1.0, and it has the module item of
\* every module whose name or description relevance meets the threshold.
C10_ClassNamedByQuery ==
    (analyses = 1 /\ lastAnalysis.withModel /\ lastAnalysis.query # Absent
     /\ lastAnalysis.query = context.query) =>
        LET modules == builderModel.modules
        IN  (\E cls \in ModelClasses(modules) : EqualsQuery(cls.name)) =>
                /\ \A cls \in ModelClasses(modules) :
                        EqualsQuery(cls.name) =>
                            \E i \in ItemsWithId(Chars("class_") \o ToLowerCase(cls.name)) :
                                /\ context.items[i].relevance.num
                                        = context.items[i].relevance.den
                                /\ context.items[i].type = "class"
                /\ \A m \in DOMAIN modules :
                        (\/ FracGeq(calculateRelevance(modules[m].name,
                                                       ToLowerCase(context.query)),
                                    lastAnalysis.threshold)
                         \/ /\ modules[m].description # <<>>
                            /\ FracGeq(calculateRelevance(modules[m].description,
                                                          ToLowerCase(context.query)),
                                       lastAnalysis.threshold))
                        => \E i \in ItemsWithId(Chars("module_")
                                                \o ToLowerCase(modules[m].name)) :
                                context.items[i].type = "module"

-----------------------------------------------------------------------------
(* C11: what analyzeConceptModel scores and includes                       *)

\* the entities of a concept model with the id of their item and the two
\* texts scored for them: name and description for a module and a class,
\* name and type for an attribute, name and target for an association
ModelEntities(modules) ==
    {[kind |-> "module", id |-> ModuleId(modules[m]),
      first |-> modules[m].name, second |-> modules[m].description,
      description |-> modules[m].description] : m \in DOMAIN modules}
    \cup {[kind |-> "class", id |-> ClassId(cls.name),
           first |-> cls.name, second |-> cls.description,
           description |-> cls.description] : cls \in ModelClasses(modules)}
    \cup UNION {{[kind |-> "attribute",
                  id |-> Concat(<<Chars("attribute_"), ToLowerCase(cls.name),
                                  Chars("_"), ToLowerCase(cls.attributes[a].name)>>),
                  first |-> cls.attributes[a].name,
                  second |-> cls.attributes[a].type,
                  description |-> cls.attributes[a].description]
                    : a \in DOMAIN cls.attributes} : cls \in ModelClasses(modules)}
    \cup UNION {{[kind |-> "association",
                  id |-> Concat(<<Chars("association_"), ToLowerCase(cls.name),
                                  Chars("_"), ToLowerCase(cls.associations[a].name)>>),
                  first |-> cls.associations[a].name,
                  second |-> cls.associations[a].target,
                  description |-> cls.associations[a].description]
                    : a \in DOMAIN cls.associations} : cls \in ModelClasses(modules)}

\* the higher of the relevances of two texts, an empty text scoring 0
HigherRelevance(first, second, query) ==
    LET r1 == calculateRelevance(first, query)
        r2 == IF second = <<>> THEN Frac(0, 1) ELSE calculateRelevance(second, query)
    IN  IF FracGeq(r1, r2) THEN r1 ELSE r2

HasItemWithId(items, id) == \E i \in DOMAIN items : items[i].id = id

\* an analyzeQuery step with a query and a concept model
ConceptAnalysisStep ==
    /\ analyses' = analyses + 1
    /\ lastAnalysis'.withModel
    /\ lastAnalysis'.query # Absent

\* C11 as stated: in the first analyzeQuery of a builder every module, class,
\* attribute and association of the model is included in the context if and
\* only if the higher of its name relevance and its description relevance
\* against the query is greater than or equal to the threshold.
C11_NameOrDescriptionScore ==
    [][(ConceptAnalysisStep /\ context.items = <<>>) =>
            \A e \in ModelEntities(builderModel.modules) :
                HasItemWithId(context'.items, e.id)
                    <=> \E f \in ModelEntities(builderModel.modules) :
                            /\ f.id = e.id
                            /\ FracGeq(HigherRelevance(f.first, f.description,
                                            ToLowerCase(lastAnalysis'.query)),
                                       lastAnalysis'.threshold)]_vars

\* C11 amended: in every analyzeQuery with a query and a concept model, a
\* module or class is scored as the higher of its name relevance and its
\* description relevance, an attribute as the higher of its name relevance
\* and its type relevance, an association as the higher of its name
\* relevance and its target relevance; every entity whose score is greater
\* than or equal to the threshold has an item with its id afterwards, every
\* item that is new has the id and the score of an entity whose score is
\* greater than or equal to the threshold, and every item that was there
\* before is kept with its relevance.
C11_ScoredAndIncluded ==
    [][ConceptAnalysisStep =>
            LET query == ToLowerCase(lastAnalysis'.query)
                limit == lastAnalysis'.threshold
                entities == ModelEntities(builderModel.modules)
            IN  /\ \A e \in entities :
                        FracGeq(HigherRelevance(e.first, e.second, query), limit)
                            => HasItemWithId(context'.items, e.id)
                /\ \A i \in DOMAIN context'.items :
                        (/\ ~HasItemWithId(context.items, context'.items[i].id)
                         /\ context'.items[i].type
                                \in {"module", "class", "attribute", "association"})
                            => \E e \in entities :
                                    /\ e.id = context'.items[i].id
                                    /\ e.kind = context'.items[i].type
                                    /\ FracGeq(HigherRelevance(e.first, e.second, query),
                                               limit)
                                    /\ FracEq(context'.items[i].relevance,
                                              HigherRelevance(e.first, e.second, query))
                /\ \A k \in DOMAIN context.items :
                        \E i \in DOMAIN context'.items :
                            /\ context'.items[i].id = context.items[k].id
                            /\ context'.items[i].relevance = context.items[k].relevance]_vars

\* an analysis with threshold 0.5 has included an attribute for its type
\* alone and has left a class out
C11_Witness ==
    /\ analyses >= 1
    /\ lastAnalysis.withModel
    /\ lastAnalysis.query # Absent
    /\ lastAnalysis.threshold = Frac(1, 2)
    /\ \E e \in ModelEntities(builderModel.modules) :
            /\ e.kind = "attribute"
            /\ HasItemWithId(context.items, e.id)
            /\ ~FracGeq(calculateRelevance(e.first, ToLowerCase(lastAnalysis.query)),
                        lastAnalysis.threshold)
    /\ \E e \in ModelEntities(builderModel.modules) :
            e.kind = "class" /\ ~HasItemWithId(context.items, e.id)

-----------------------------------------------------------------------------
(* ContextBuilder with its three sources and build()                       *)

R_BridgeRule ==
    [name |-> Chars("Bridge rule"),
     description |-> Chars("how a bridge is encoded"),
     appliesTo |-> <<Chars("Bridge"), Chars("BridgePart"), Chars("bridge")>>]

R_SolidRule ==
    [name |-> Chars("Solid"), description |-> <<>>, appliesTo |-> <<>>]

E_BridgeExample ==
    [title |-> Chars("Bridge  example"), description |-> <<>>,
     relatedClasses |-> <<Chars("Bridge")>>]

EncodingDocs == {EncodingDoc(<<R_BridgeRule, R_SolidRule>>, <<E_BridgeExample>>)}

Registries ==
    {Registry(<<[name |-> Chars("Bridge"),
                 declarations |-> <<[documentation |-> Chars("a bridge"),
                                     type |-> Chars("brid:BridgeType")],
                                    [documentation |-> <<>>,
                                     type |-> <<>>]>>]>>,
              <<[name |-> Chars("BridgeType"),
                 declarations |-> <<[documentation |-> <<>>,
                                     base |-> Chars("core:AbstractOccupiedSpaceType"),
                                     isComplex |-> TRUE]>>],
                [name |-> Chars("SolidType"),
                 declarations |-> <<[documentation |-> <<>>, base |-> <<>>,
                                     isComplex |-> FALSE]>>]>>)}

SourceQueries == {Chars("bridge")}

SourceThresholds == {Frac(0, 1), Frac(4, 5)}

SrcInit ==
    /\ files = <<F_bridge>>
    /\ CtxParked
    /\ RxParked
    /\ AttrParked
    /\ ObjParked
    /\ ConceptParked
    /\ RelParked

\* ContextBuilder.setEncodingDocument
SetEncodingDocument ==
    /\ encodingDoc.isNull
    /\ encodingDoc' \in EncodingDocs
    /\ context' = [context EXCEPT !.metadata.sources =
                        IF \E i \in DOMAIN @ : @[i] = "encoding"
                        THEN @ ELSE Append(@, "encoding")]
    /\ UNCHANGED <<builderModel, analyses, lastAnalysis, schemaRegistry, built,
                   builtContext, files, conceptVars, relVars, objVars, attrVars,
                   rxVars>>

\* ContextBuilder.setSchemaRegistry
SetSchemaRegistry ==
    /\ schemaRegistry.isNull
    /\ schemaRegistry' \in Registries
    /\ context' = [context EXCEPT !.metadata.sources =
                        IF \E i \in DOMAIN @ : @[i] = "schema"
                        THEN @ ELSE Append(@, "schema")]
    /\ UNCHANGED <<builderModel, analyses, lastAnalysis, encodingDoc, built,
                   builtContext, files, conceptVars, relVars, objVars, attrVars,
                   rxVars>>

SrcSetQuery == \E query \in SourceQueries : SetQueryTo(query)

SrcAnalyzeQuery == \E limit \in SourceThresholds : AnalyzeQueryWith(limit)

\* ContextBuilder.build: it returns the context object of the builder
\* itself, so what the caller holds reads as context from then on
Build ==
    /\ ~built
    /\ built' = TRUE
    /\ builtContext' = context
    /\ UNCHANGED <<builderModel, context, analyses, lastAnalysis, encodingDoc,
                   schemaRegistry, files, conceptVars, relVars, objVars, attrVars,
                   rxVars>>

SrcNext ==
    \/ CtxSetConceptModel
    \/ SetEncodingDocument
    \/ SetSchemaRegistry
    \/ SrcSetQuery
    \/ SrcAnalyzeQuery
    \/ Build

SpecBuilder == SrcInit /\ [][SrcNext]_vars

\* C12: after any sequence of ContextBuilder operations the item list of
\* the Context never holds two items with the same id.
C12_NoDuplicateIds ==
    \A i \in DOMAIN context.items : \A k \in DOMAIN context.items :
        i # k => context.items[i].id # context.items[k].id

\* importance * 0.5 + relevance * 0.5 of an item, as numerator and
\* denominator
HalfScore(item) ==
    Frac(item.importance * item.relevance.den + item.relevance.num,
         2 * item.relevance.den)

\* C13: the items of the Context are ordered by non-increasing score
\* importance*0.5 + relevance*0.5 after every analyzeQuery, whatever the
\* sources: each item's score is greater than or equal to the next one's.
C13_ItemsOrderedByScore ==
    \A i \in DOMAIN context.items :
        i + 1 \in DOMAIN context.items
            => FracGeq(HalfScore(context.items[i]), HalfScore(context.items[i + 1]))

\* an analysis has put an encoding rule, pushed after the attributes, ahead
\* of an attribute, and the items have more than one score
C13_Witness ==
    /\ analyses >= 1
    /\ \E i \in DOMAIN context.items : \E k \in DOMAIN context.items :
            /\ i < k
            /\ context.items[i].type = "encoding_rule"
            /\ context.items[k].type = "attribute"
            /\ ~FracGeq(HalfScore(context.items[k]), HalfScore(context.items[i]))

\* C14: once build() has returned the Context, no later operation on the
\* builder changes its query, items or metadata.
C14_BuiltContextNotMutated ==
    built =>
        /\ context.query = builtContext.query
        /\ context.items = builtContext.items
        /\ context.metadata = builtContext.metadata

\* C15: metadata.totalItems equals the number of items of the Context,
\* whatever mix of items was added.
C15_TotalItemsIsItemCount ==
    context.metadata.totalItems = Len(context.items)

-----------------------------------------------------------------------------
(* C16: which classes the map of extractAllCityObjects holds                *)

\* (a) a declared superclass name contains a foundational marker, or (b)
\* the name of the class contains a word of the domain vocabulary
HasMarkerOrVocabulary(C) ==
    \/ \E P \in Range(C.superClasses) : \E marker \in cityObjectMarkers :
            Includes(P, marker)
    \/ \E word \in cityObjectNamePatterns : Includes(C.name, word)

\* C16 as stated: the returned map contains a class of the conceptual model
\* if and only if the class meets (a) or (b).
C16_EveryMarkedClassInMap ==
    objPc = "returned" =>
        \A C \in ModelClasses(objModel.modules) :
            MapHas(cityObjects, C.name) <=> HasMarkerOrVocabulary(C)

\* C16 amended: the returned map has an entry named N if and only if a class
\* named N of a module whose name is one of the city-object module names
\* meets (a) or (b); the entry names such a module and class.
C16_MarkedClassesOfCityObjectModules ==
    objPc = "returned" =>
        LET modules == objModel.modules
        IN  /\ \A m \in DOMAIN modules : \A C \in Range(modules[m].classes) :
                    (modules[m].name \in cityObjectModules
                     /\ HasMarkerOrVocabulary(C))
                        => MapHas(cityObjects, C.name)
            /\ \A e \in DOMAIN cityObjects :
                    \E m \in DOMAIN modules : \E C \in Range(modules[m].classes) :
                        /\ modules[m].name \in cityObjectModules
                        /\ HasMarkerOrVocabulary(C)
                        /\ C.name = cityObjects[e].key
                        /\ cityObjects[e].value.name = C.name
                        /\ cityObjects[e].value.module = modules[m].name

\* a returned map with an entry for its superclass alone, from a model that
\* also has a class of a city-object module the map leaves out
C16_Witness ==
    /\ objPc = "returned"
    /\ \E e \in DOMAIN cityObjects :
            \A word \in cityObjectNamePatterns : ~Includes(cityObjects[e].key, word)
    /\ \E m \in DOMAIN objModel.modules :
            /\ objModel.modules[m].name \in cityObjectModules
            /\ \E C \in Range(objModel.modules[m].classes) :
                    ~MapHas(cityObjects, C.name)

-----------------------------------------------------------------------------
\* Cardinality analysis of the attributes (SpecAttributes)

NonZeroDigits == {"1", "2", "3", "4", "5", "6", "7", "8", "9"}

StartsWithNonZeroDigit(cardinality) ==
    Len(cardinality) > 0 /\ cardinality[1] \in NonZeroDigits

\* the part of a cardinality after "..": "*" or an integer above 1
MaxSegmentIsMany(cardinality) ==
    LET parts == Split(cardinality, Chars(".."))
    IN  /\ Len(parts) >= 2
        /\ \/ parts[2] = Chars("*")
           \/ /\ parts[2] # <<>>
              /\ \A i \in DOMAIN parts[2] : parts[2][i] \in Range(DigitChars)
              /\ DigitsValue(parts[2], 0) > 1

\* the (class, attribute) pairs of the model whose cardinality satisfies Test
AttributesWhere(Test(_)) ==
    {[className |-> C.name, attributeName |-> a.name] :
        <<C, a>> \in {<<C, a>> \in UNION {{<<D, b>> : b \in Range(D.attributes)} :
                                     D \in UNION {Range(attrModel.modules[m].classes) :
                                                    m \in DOMAIN attrModel.modules}} :
                        Test(a.cardinality)}}

WithoutMaxOccurs(entry) ==
    [className |-> entry.className, attributeName |-> entry.attributeName]

\* C17: the summary of analyzeCardinality lists an attribute as required
\* exactly when its cardinality starts with a non-zero digit, as optional
\* exactly when it starts with "0", and as multi-valued exactly when the
\* segment after ".." is "*" or an integer greater than 1.
C17_CardinalityClasses ==
    cardPc = "returned" =>
        LET StartsWithZero(c) == StartsWith(c, Chars("0"))
        IN  /\ Range(cardinalitySummary.requiredAttributes)
                = AttributesWhere(StartsWithNonZeroDigit)
            /\ Range(cardinalitySummary.optionalAttributes)
                = AttributesWhere(StartsWithZero)
            /\ {WithoutMaxOccurs(e) : e \in Range(cardinalitySummary.multiValuedAttributes)}
                = AttributesWhere(MaxSegmentIsMany)

-----------------------------------------------------------------------------
\* Failure policy of extractRelationships (SpecRelationships)

\* the file can be read and parsed, has xs:schema and a targetNamespace
IsLoadable(file) == file.status = "ok" /\ file.targetNamespace # Absent

\* no file of the list that loads has the module name of this file
OnlyFailsUnderItsName(file) ==
    \A g \in Range(files) : IsLoadable(g) => Basename(g.path) # Basename(file.path)

\* C18: with the extractors set, a call of extractRelationships returns
\* whatever files fail; a file that cannot be read or parsed, has no
\* xs:schema or no targetNamespace contributes no document and no
\* relationship, and the returned map is the map of the other files.
C18_FailingFileIsSkipped ==
    [][(extractorsSet /\ relationPc' # relationPc) =>
            /\ relationPc' = "returned"
            /\ \A f \in Range(files) :
                    (~IsLoadable(f) /\ OnlyFailsUnderItsName(f)) =>
                        /\ ~MapHas(moduleXsdDocs', Basename(f.path))
                        /\ \A e \in DOMAIN relationships' :
                                relationships'[e].value.xsdPath
                                    # XsdPath(Basename(f.path))
            /\ \A f \in Range(files) :
                    IsLoadable(f) => MapHas(moduleXsdDocs', Basename(f.path))
            /\ relationships'
                = extractRelationships(FilterSeq(IsLoadable, files)).relationships
      ]_vars

\* a call has returned relationships for a list in which a file that loads
\* comes after one that fails
C18_Witness ==
    /\ relationPc = "returned"
    /\ relationships # <<>>
    /\ \E i, j \in DOMAIN files :
            /\ i < j
            /\ ~IsLoadable(files[i])
            /\ IsLoadable(files[j])

-----------------------------------------------------------------------------
\* Kinds of the relationships of elements (SpecRelationships)

\* the kind the name of a typed element stands for
KindOfName(elementName) ==
    IF EndsWith(elementName, Chars("Member")) \/ Includes(elementName, Chars("members"))
    THEN "aggregation"
    ELSE IF EndsWith(elementName, Chars("Part")) \/ Includes(elementName, Chars("parts"))
    THEN "composition"
    ELSE "association"

\* the returned map has a relationship of this kind to the target under the role
YieldsKind(kind, target, role) ==
    \E e \in DOMAIN relationships :
        /\ relationships[e].value.type = kind
        /\ relationships[e].value.target = target
        /\ relationships[e].value.targetRole = role

\* the same, from the named complexType
YieldsKindFrom(kind, source, target, role) ==
    \E e \in DOMAIN relationships :
        /\ relationships[e].value.type = kind
        /\ relationships[e].value.source = source
        /\ relationships[e].value.target = target
        /\ relationships[e].value.targetRole = role

IsTypedElement(element) ==
    element.ref = Absent /\ element.name # Absent /\ element.type # Absent

LoadedTypes ==
    UNION {Range(moduleXsdDocs[d].value.types) : d \in DOMAIN moduleXsdDocs}

\* C20 as stated: a ref element in an xs:sequence of a named complexType
\* yields a composition, and every typed non-ref element yields an
\* aggregation, a composition or an association after its name.
C20_EveryTypedElementYieldsKind ==
    relationPc = "returned" =>
        \A T \in LoadedTypes :
            \A element \in Range(T.elements) :
                /\ (element.ref # Absent /\ element.inSequence /\ T.name # Absent) =>
                        YieldsKindFrom("composition", T.name, WithoutPrefix(element.ref),
                                       Absent)
                /\ IsTypedElement(element) =>
                        YieldsKind(KindOfName(element.name), WithoutPrefix(element.type),
                                   element.name)

\* C20, amended: a ref element in an xs:sequence of a named complexType
\* yields a composition; a typed non-ref element below a named complexType
\* whose type has no xs prefix yields an aggregation if its name ends in
\* Member or contains members, otherwise a composition if it ends in Part or
\* contains parts, otherwise an association, and yields neither of the other
\* two of aggregation and composition; a typed element with an xs type or
\* without a named complexType above it yields no relationship.
C20_ElementKinds ==
    relationPc = "returned" =>
        \A T \in LoadedTypes :
            \A element \in Range(T.elements) :
                /\ (element.ref # Absent /\ element.inSequence /\ T.name # Absent) =>
                        YieldsKindFrom("composition", T.name, WithoutPrefix(element.ref),
                                       Absent)
                /\ (IsTypedElement(element) /\ T.name # Absent
                        /\ PrefixOf(element.type) # Chars("xs")) =>
                        /\ YieldsKindFrom(KindOfName(element.name), T.name,
                                          WithoutPrefix(element.type), element.name)
                        /\ \A kind \in {"aggregation", "composition"}
                                            \ {KindOfName(element.name)} :
                                ~YieldsKindFrom(kind, T.name,
                                                WithoutPrefix(element.type), element.name)
                /\ (IsTypedElement(element)
                        /\ (T.name = Absent \/ PrefixOf(element.type) = Chars("xs"))) =>
                        \A kind \in {"aggregation", "composition", "association"} :
                            ~YieldsKind(kind, WithoutPrefix(element.type), element.name)

\* a typed element whose name has the markers of a part and of a member has
\* yielded an aggregation
C20_Witness ==
    /\ relationPc = "returned"
    /\ \E T \in LoadedTypes :
            \E element \in Range(T.elements) :
                /\ IsTypedElement(element)
                /\ Includes(element.name, Chars("parts"))
                /\ EndsWith(element.name, Chars("Member"))
                /\ YieldsKindFrom("aggregation", T.name, WithoutPrefix(element.type),
                                  element.name)

-----------------------------------------------------------------------------
(* Specification SpecProtocol: an ObjectExtractor and an AttributeExtractor *)
(* whose operations are called before and after setConceptualModel.         *)

ProtocolLists == {<<F_core>>, <<F_building>>, <<F_core, F_building>>}

ProtocolObjectNames ==
    {Chars("Building"), Chars("AbstractOccupiedSpace"), Chars("Tunnel")}

ProtocolInit ==
    /\ files \in ProtocolLists
    /\ ObjParked
    /\ AttrParked
    /\ ConceptParked
    /\ RelParked
    /\ RxParked
    /\ CtxParked

otherVars == <<files, conceptVars, relVars, rxVars, ctxVars>>

\* a change such as a bug would make: the model is not tested
ClassifyObjectsByModule_Unchecked ==
    /\ classifyPc # "returned"
    /\ objectsByModule' = classifyObjectsByModule(objModel.modules)
    /\ classifyPc' = "returned"
    /\ UNCHANGED <<objModel, cityObjects, objPc, geometryRepresentations, geometryPc,
                   attrVars, otherVars>>

\* ObjectExtractor.classifyObjectsByModule
ClassifyObjectsByModule ==
    /\ classifyPc # "returned"
    /\ IF objModel.isNull
       THEN classifyPc' = "threw" /\ UNCHANGED objectsByModule
       ELSE /\ objectsByModule' = classifyObjectsByModule(objModel.modules)
            /\ classifyPc' = "returned"
    /\ UNCHANGED <<objModel, cityObjects, objPc, geometryRepresentations, geometryPc,
                   attrVars, otherVars>>

\* ObjectExtractor.extractGeometryRepresentations
ExtractGeometryRepresentationsOf(cityObjectName) ==
    /\ geometryPc # "returned"
    /\ IF objModel.isNull
       THEN geometryPc' = "threw" /\ UNCHANGED geometryRepresentations
       ELSE /\ geometryRepresentations'
                    = extractGeometryRepresentations(objModel.modules, cityObjectName)
            /\ geometryPc' = "returned"
    /\ UNCHANGED <<objModel, cityObjects, objPc, objectsByModule, classifyPc,
                   attrVars, otherVars>>

ExtractGeometryRepresentations ==
    \E cityObjectName \in ProtocolObjectNames :
        ExtractGeometryRepresentationsOf(cityObjectName)

\* AttributeExtractor.extractAllCodelists
ExtractAllCodelists ==
    /\ codelistPc # "returned"
    /\ IF attrModel.isNull
       THEN codelistPc' = "threw" /\ UNCHANGED allCodelists
       ELSE /\ allCodelists' = extractAllCodelists(attrModel.modules)
            /\ codelistPc' = "returned"
    /\ UNCHANGED <<attrModel, allAttributes, attrPc, cardinalitySummary, cardPc,
                   objVars, otherVars>>

ProtocolNext ==
    \/ SetConceptualModel
    \/ ExtractAllCityObjects
    \/ ClassifyObjectsByModule
    \/ ExtractGeometryRepresentations
    \/ AttrSetConceptualModel
    \/ ExtractAllAttributes
    \/ AnalyzeCardinality
    \/ ExtractAllCodelists

SpecProtocol == ProtocolInit /\ [][ProtocolNext]_vars

\* a call of the operation with this position and this result: it throws
\* and leaves the result as it was if the model is not set, and returns if
\* the model is set
CallObeysProtocol(modelIsNull, pcBefore, pcAfter, resultUnchanged) ==
    pcAfter # pcBefore =>
        /\ modelIsNull => (pcAfter = "threw" /\ resultUnchanged)
        /\ ~modelIsNull => pcAfter = "returned"

\* C19: each of the six operations, called on an instance before its
\* setConceptualModel, throws and returns no result, and called after it,
\* does not throw.
C19_PreconditionProtocol ==
    [][/\ CallObeysProtocol(objModel.isNull, objPc, objPc', cityObjects' = cityObjects)
       /\ CallObeysProtocol(objModel.isNull, classifyPc, classifyPc',
                            objectsByModule' = objectsByModule)
       /\ CallObeysProtocol(objModel.isNull, geometryPc, geometryPc',
                            geometryRepresentations' = geometryRepresentations)
       /\ CallObeysProtocol(attrModel.isNull, attrPc, attrPc',
                            allAttributes' = allAttributes)
       /\ CallObeysProtocol(attrModel.isNull, cardPc, cardPc',
                            cardinalitySummary' = cardinalitySummary)
       /\ CallObeysProtocol(attrModel.isNull, codelistPc, codelistPc',
                            allCodelists' = allCodelists)
      ]_vars

\* on the ObjectExtractor one operation threw before the model was set and
\* another returned a result after it; on the AttributeExtractor, whose model
\* is not set, a call threw
C19_Witness ==
    /\ ~objModel.isNull
    /\ classifyPc = "threw"
    /\ objectsByModule = <<>>
    /\ objPc = "returned"
    /\ cityObjects # <<>>
    /\ geometryPc = "returned"
    /\ geometryRepresentations # <<>>
    /\ attrModel.isNull
    /\ codelistPc = "threw"

-----------------------------------------------------------------------------
\* Multiplicities of the relationships of elements and attributes
\* (SpecRelationships)

AssociationFamily == {"association", "aggregation", "composition"}

OneToOne == Multiplicity(Num(1), Finite(Num(1)))
ZeroToOne == Multiplicity(Num(0), Finite(Num(1)))

\* {minOccurs, maxOccurs} of an element: 1 where absent, '*' for unbounded
OccursMultiplicity(element) ==
    LET minOccurs == IF element.minOccurs = Absent THEN Chars("1") ELSE element.minOccurs
        maxOccurs == IF element.maxOccurs = Absent THEN Chars("1") ELSE element.maxOccurs
    IN  Multiplicity(ParseInt(minOccurs),
                     IF maxOccurs = Chars("unbounded") THEN Star
                     ELSE Finite(ParseInt(maxOccurs)))

\* {1,1} for use="required", {0,1} otherwise
UseMultiplicity(attribute) ==
    IF attribute.use = Chars("required") THEN OneToOne ELSE ZeroToOne

\* a relationship of the family was set from the type to the target under
\* the role, with this target multiplicity
SetWithTargetMultiplicity(source, target, role, multiplicity) ==
    \E i \in DOMAIN debugLog :
        /\ debugLog[i].type \in AssociationFamily
        /\ debugLog[i].source = source
        /\ debugLog[i].target = target
        /\ debugLog[i].targetRole = role
        /\ debugLog[i].targetMultiplicity = multiplicity

YieldsFromElement(element) ==
    \/ element.ref # Absent
    \/ /\ element.name # Absent /\ element.type # Absent
       /\ PrefixOf(element.type) # Chars("xs")

YieldsFromAttribute(attribute) ==
    \/ attribute.ref # Absent /\ ~IsXlinkHref(attribute.ref)
    \/ /\ attribute.ref = Absent
       /\ attribute.name # Absent /\ attribute.type # Absent
       /\ PrefixOf(attribute.type) # Chars("xs")

\* C21: every relationship of the association family has the source
\* multiplicity {1,1}; the relationship of an element has the target
\* multiplicity {minOccurs, maxOccurs}; the relationship of an XSD
\* attribute has {1,1} when use="required" and {0,1} otherwise.
C21_Multiplicities ==
    relationPc = "returned" =>
        /\ \A i \in DOMAIN debugLog :
                debugLog[i].type \in AssociationFamily
                    => debugLog[i].sourceMultiplicity = OneToOne
        /\ \A T \in LoadedTypes :
                T.name # Absent =>
                    /\ \A element \in Range(T.elements) :
                            YieldsFromElement(element) =>
                                SetWithTargetMultiplicity(
                                    T.name,
                                    WithoutPrefix(IF element.ref # Absent
                                                  THEN element.ref ELSE element.type),
                                    IF element.ref # Absent THEN Absent ELSE element.name,
                                    OccursMultiplicity(element))
                    /\ \A attribute \in Range(T.attributes) :
                            YieldsFromAttribute(attribute) =>
                                SetWithTargetMultiplicity(
                                    T.name,
                                    WithoutPrefix(IF attribute.ref # Absent
                                                  THEN attribute.ref ELSE attribute.type),
                                    IF attribute.ref # Absent THEN Absent
                                    ELSE attribute.name,
                                    UseMultiplicity(attribute))

-----------------------------------------------------------------------------
\* The spatial relationship of an xlink:href reference (SpecRelationships)

HasXlinkHref(T) ==
    \E attribute \in Range(T.attributes) :
        attribute.ref # Absent /\ IsXlinkHref(attribute.ref)

\* the attributeGroup references beside the attributes of the type
GroupReferences(T) ==
    Range(T.attributeGroupRefs)
        \cup (IF T.attributeGroup # Absent THEN {T.attributeGroup} ELSE {})

PropertyTypeSuffix == Chars("PropertyType")

NamesPropertyType(group) == EndsWith(WithoutPrefix(group), PropertyTypeSuffix)

\* the group name without its prefix and without the suffix PropertyType
StrippedGroupName(group) ==
    SubSeq(WithoutPrefix(group), 1,
           Len(WithoutPrefix(group)) - Len(PropertyTypeSuffix))

ReferencesFrom(source, target) ==
    \E e \in DOMAIN relationships :
        /\ relationships[e].value.type = "spatial"
        /\ relationships[e].value.spatialType = "references"
        /\ relationships[e].value.source = source
        /\ relationships[e].value.target = target

\* C22: an xlink:href attribute reference in a named complexType S with an
\* attributeGroup reference ending in PropertyType yields a spatial
\* references relationship from S to the group name without that suffix,
\* and the target is Unknown only when S has no such reference.
C22_XlinkTarget ==
    relationPc = "returned" =>
        \A T \in LoadedTypes :
            (T.name # Absent /\ HasXlinkHref(T)) =>
                /\ \A group \in GroupReferences(T) :
                        NamesPropertyType(group) =>
                            ReferencesFrom(T.name, StrippedGroupName(group))
                /\ ReferencesFrom(T.name, Chars("Unknown")) =>
                        \A group \in GroupReferences(T) : ~NamesPropertyType(group)

-----------------------------------------------------------------------------
\* Formats of the ids of generalization and spatial relationships
\* (SpecRelationships)

\* kind_source_target
PlainId(kind, r) == Chars(kind) \o Chars("_") \o r.source \o Chars("_") \o r.target

\* kind_source_role_target
RoleId(kind, r) ==
    Chars(kind) \o Chars("_") \o r.source \o Chars("_") \o r.targetRole
        \o Chars("_") \o r.target

\* C23 as stated: every generalization in the map has the id
\* generalization_<source>_<target> and every spatial relationship the id
\* spatial_<source>_<target>, for its own source and target.
C23_PlainIds ==
    \A e \in DOMAIN relationships :
        LET r == relationships[e].value
        IN  /\ r.type = "generalization" => r.id = PlainId("generalization", r)
            /\ r.type = "spatial" => r.id = PlainId("spatial", r)

\* C23, amended: every generalization in the map has the id
\* generalization_<source>_<target>; a spatial relationship without a target
\* role (an xlink:href reference) has the id spatial_<source>_<target>, and
\* one with a target role (a geometry element) has the id
\* spatial_<source>_<targetRole>_<target>; the map holds each under its id.
C23_IdFormats ==
    \A e \in DOMAIN relationships :
        LET r == relationships[e].value
        IN  /\ relationships[e].key = r.id
            /\ r.type = "generalization" => r.id = PlainId("generalization", r)
            /\ (r.type = "spatial" /\ r.targetRole = Absent)
                    => r.id = PlainId("spatial", r)
            /\ (r.type = "spatial" /\ r.targetRole # Absent)
                    => r.id = RoleId("spatial", r)

\* the returned map holds a generalization, the spatial relationship of an
\* xlink:href reference and the spatial relationship of a geometry element
C23_Witness ==
    /\ relationPc = "returned"
    /\ \E e \in DOMAIN relationships : relationships[e].value.type = "generalization"
    /\ \E e \in DOMAIN relationships :
            /\ relationships[e].value.type = "spatial"
            /\ relationships[e].value.targetRole = Absent
    /\ \E e \in DOMAIN relationships :
            /\ relationships[e].value.type = "spatial"
            /\ relationships[e].value.targetRole # Absent

-----------------------------------------------------------------------------
\* Codelists and enumerations of a module (SpecConcept)

ListsName(list, name) == \E i \in DOMAIN list : list[i].name = name

\* C24: every named simpleType with an enumeration facet is in the
\* enumerations of its module exactly when its name ends in EnumBase, and in
\* the codelists otherwise: in one of the two and never in both.
C24_EnumerationOrCodelist ==
    \A m \in DOMAIN conceptModel :
        \A f \in Range(files) :
            (f.status = "ok" /\ Basename(f.path) = conceptModel[m].name) =>
                \A st \in Range(f.simpleTypes) :
                    (st.name # Absent /\ st.values # <<>>) =>
                        /\ ListsName(conceptModel[m].enumerations, st.name)
                                <=> EndsWith(st.name, Chars("EnumBase"))
                        /\ ListsName(conceptModel[m].codelists, st.name)
                                <=> ~EndsWith(st.name, Chars("EnumBase"))

-----------------------------------------------------------------------------
\* Geometry, LOD and thematic views of a city object (SpecObjects)

NamesOf(list) == {list[i].name : i \in DOMAIN list}

\* C25: no attribute or association of a city object is both in
\* geometryProperties and in lodInfo.lodAttributes.
C25_GeometryAndLodExclusive ==
    objPc = "returned" =>
        \A e \in DOMAIN cityObjects :
            NamesOf(cityObjects[e].value.geometryProperties)
                \cap NamesOf(cityObjects[e].value.lodInfo.lodAttributes) = {}

\* C26: every attribute of the class of a city object is in at least one of
\* geometryProperties, lodInfo.lodAttributes and thematicAttributes.
C26_AttributeCoverage ==
    objPc = "returned" =>
        \A e \in DOMAIN cityObjects :
            LET object == cityObjects[e].value
            IN  NamesOf(object.attributes) \subseteq
                    NamesOf(object.geometryProperties)
                        \cup NamesOf(object.lodInfo.lodAttributes)
                        \cup NamesOf(object.thematicAttributes)

LevelsOf(lodAttributes) == {lodAttributes[i].level : i \in DOMAIN lodAttributes}

\* C27: for every city object with an LOD attribute or association, minLod
\* is the least and maxLod the greatest of the levels in lodAttributes.
C27_MinAndMaxLod ==
    objPc = "returned" =>
        \A e \in DOMAIN cityObjects :
            LET lodInfo == cityObjects[e].value.lodInfo
                levels == LevelsOf(lodInfo.lodAttributes)
            IN  levels # {} =>
                    /\ lodInfo.minLod \in levels
                    /\ lodInfo.maxLod \in levels
                    /\ \A level \in levels :
                            lodInfo.minLod <= level /\ level <= lodInfo.maxLod

-----------------------------------------------------------------------------
\* Ids of the relationships the patterns set (SpecRelationships)

\* C28: two relationships set with different (kind, source, target, role)
\* tuples never have the same id.
C28_IdsInjective ==
    \A i, j \in DOMAIN debugLog :
        debugLog[i].id = debugLog[j].id
            => RelationshipTuple(debugLog[i]) = RelationshipTuple(debugLog[j])


-----------------------------------------------------------------------------
(* C29, C30: the analyses of the extracted relationships                    *)

\* the relationships of the given type whose source and target classes are
\* in different modules of the conceptual model
CrossModule(type) ==
    LET IsCross(r) ==
            /\ r.type = type
            /\ findModuleForClass(rxModel, r.source) # Absent
            /\ findModuleForClass(rxModel, r.target) # Absent
            /\ findModuleForClass(rxModel, r.source)
                    # findModuleForClass(rxModel, r.target)
    IN  FilterSeq(IsCross, getRelationshipsArray(relationships))

\* the list has an entry for the relationship, under its modules
ReportedIn(list, r) ==
    \E i \in DOMAIN list :
        /\ list[i].source = findModuleForClass(rxModel, r.source)
        /\ list[i].target = findModuleForClass(rxModel, r.target)
        /\ list[i].relationship = r.name

\* dependencies has each pair of modules of a cross-module relationship
\* once, and no pair of a module with itself
DependenciesAreThePairs ==
    LET dependencies == moduleRelationships.dependencies
        cross == CrossModule("generalization") \o CrossModule("association")
                    \o CrossModule("composition") \o CrossModule("aggregation")
                    \o CrossModule("spatial")
    IN  /\ \A i \in DOMAIN cross :
            Cardinality({k \in DOMAIN dependencies :
                /\ dependencies[k].source = findModuleForClass(rxModel, cross[i].source)
                /\ dependencies[k].target = findModuleForClass(rxModel, cross[i].target)})
                = 1
        /\ \A k \in DOMAIN dependencies :
            dependencies[k].source # dependencies[k].target

InBucket(list, r) == \E i \in DOMAIN list : list[i] = r

\* the four lists that hold the relationship
BucketsOf(r) ==
    {b \in {"oneToOne", "oneToMany", "manyToOne", "manyToMany"} :
        InBucket(multiplicitySummary[b], r)}

\* max is '*' or an integer greater than 1
IsManyMax(max) == max.star \/ (~max.number.isNaN /\ max.number.value > 1)

\* C30: analyzeRelationshipMultiplicity places every relationship in exactly
\* one of oneToOne, oneToMany, manyToOne, manyToMany, and a relationship is in
\* manyToMany only if both its source max and its target max are '*' or an
\* integer greater than 1
C30_MultiplicityBuckets ==
    multiplicityPc = "returned" =>
        \A i \in DOMAIN relationships :
            LET r == relationships[i].value
            IN  /\ Cardinality(BucketsOf(r)) = 1
                /\ InBucket(multiplicitySummary.manyToMany, r)
                    => /\ IsManyMax(r.sourceMultiplicity.max)
                       /\ IsManyMax(r.targetMultiplicity.max)

====
